---- MODULE Spec2Model ----
(***************************************************************************)
(* Model of IFCEnhancedProcessor (src/backend/bim/ifc_enhanced.py): the    *)
(* processor object, the entity graph it builds through the ifcopenshell   *)
(* API, the file written at the output path, and the bundle that import    *)
(* extracts from a graph.                                                  *)
(*                                                                         *)
(* The entity graph is a pair [fid, ents]: fid identifies the file object, *)
(* ents is the sequence of entities in order of creation.  An attribute    *)
(* that holds another entity is an integer: i >= 1 is the entity at        *)
(* position i of the same graph, 0 is Python's None, -1 is an entity that  *)
(* lives in another file object.  Python references held by the processor  *)
(* (self.project, ...) are records [f, i]: file object and position.       *)
(***************************************************************************)
EXTENDS Integers, Sequences, FiniteSets, TLC

VARIABLES
    ifc_file,   \* self.ifc_file: NoFile or the graph [fid, ents]
    project,    \* self.project
    site,       \* self.site
    building,   \* self.building
    disk,       \* the file at the output path: <<>> (absent) or <<ents>>
    nfiles,     \* file objects created so far (ifcopenshell.file / open)
    calls,      \* calls made so far on processors
    last,       \* the last call: what it was given and what it returned
    prev,       \* the call before it
    check,      \* the last RBACManager query and its answer
    project_members,      \* collaboration.project_members: project id -> list
    project_invitations,  \* collaboration.project_invitations
    activity_logs,        \* collaboration.activity_logs
    response,   \* the last collaboration request and its HTTP status
    served,     \* collaboration requests served so far
    requests,   \* RateLimiter.requests: key -> list of times
    now,        \* time.time()
    history     \* the is_allowed calls made so far: key, time, answer

ifc_vars == <<ifc_file, project, site, building, disk, nfiles, calls, last, prev>>
rbac_vars == <<check>>
collab_vars == <<project_members, project_invitations, activity_logs, response,
                 served>>
rate_vars == <<requests, now, history>>

vars == <<ifc_file, project, site, building, disk, nfiles, calls, last, prev,
          check, project_members, project_invitations, activity_logs, response,
          served, requests, now, history>>

\* Bound on the number of create/import/export calls in one behaviour.
MaxCalls == 2

-----------------------------------------------------------------------------
(* Python values *)

None == "None"
NoFile == [fid |-> 0, ents |-> <<>>]
NoneRef == [f |-> 0, i |-> 0]
NoneDict == [py_none |-> TRUE]
EmptyDict == <<>>

IsNone(d) == "py_none" \in DOMAIN d

\* dict.get(k, default)
Get(d, k, default) == IF k \in DOMAIN d THEN d[k] ELSE default

\* truth value of a dict, as tested by `if d:`
Truthy(d) == ~IsNone(d) /\ DOMAIN d # {}

\* map[id] = position
Put(dict, id, position) == (id :> position) @@ dict

-----------------------------------------------------------------------------
(* The entity graph, as the code uses the ifcopenshell API *)

\* The value stored in an attribute of an entity of graph g for Python value r.
Store(g, r) == IF r = NoneRef THEN 0 ELSE IF r.f = g.fid THEN r.i ELSE -1

\* the graph with the entities es created in it, in that order
AddEntities(g, es) == [g EXCEPT !.ents = @ \o es]

\* the entity ifcopenshell.api.run("root.create_entity", file, ifc_class=,
\* name=) creates at position i of file object fid
RootEntity(fid, i, ifc_class, name) ==
    [type |-> ifc_class, GlobalId |-> <<fid, i>>, Name |-> name,
     Description |-> None]

\* the relation ifcopenshell.api.run("aggregate.assign_object", file,
\* relating_object=, product=) creates at position i
RelAggregates(fid, i, relating_object, product) ==
    [type |-> "IfcRelAggregates", GlobalId |-> <<fid, i>>,
     RelatingObject |-> relating_object, RelatedObjects |-> <<product>>]

\* the entity ifcopenshell.api.run("context.add_context", file, ...) creates
Context(identifier, target_view, parent) ==
    [type |-> "IfcGeometricRepresentationContext", ContextType |-> "Model",
     ContextIdentifier |-> identifier, TargetView |-> target_view,
     ParentContext |-> parent]

IndicesOfType(ents, t) == {i \in 1..Len(ents) : ents[i].type = t}

\* file.by_type: positions of the entities of the given types, in order of
\* creation
RECURSIVE ByTypes(_, _, _)
ByTypes(ents, types, i) ==
    IF i > Len(ents) THEN <<>>
    ELSE (IF ents[i].type \in types THEN <<i>> ELSE <<>>)
         \o ByTypes(ents, types, i + 1)

-----------------------------------------------------------------------------
(* Export: construction of the graph *)

\* _create_project_context: the model context (at position i) and its Body
\* and Axis subcontexts
ProjectContext(i) ==
    << Context(None, None, 0),
       Context("Body", "MODEL_VIEW", i),
       Context("Axis", "GRAPH_VIEW", i) >>

\* the IfcProject entities create_new_ifc_project creates: the one of line 30
\* and the one of line 35 that self.project names
ProjectEntities(fid, project_data) ==
    << RootEntity(fid, 1, "IfcProject", None),
       RootEntity(fid, 2, "IfcProject",
                  Get(project_data, "name", "StruMind Project")) >>

\* create_new_ifc_project on file object fid: the graph and the three fields.
\* Line 30 binds self.ifc_file to what root.create_entity returns for a new
\* file and class IfcProject; the model takes it as the handle of that file,
\* which then holds this first IfcProject entity.
CreateNewIfcProject(fid, project_data) ==
    [project |-> [f |-> fid, i |-> 2],
     site |-> [f |-> fid, i |-> 6],
     building |-> [f |-> fid, i |-> 7],
     g |-> [fid |-> fid,
            ents |-> ProjectEntities(fid, project_data)
                \o ProjectContext(3)
                \o << RootEntity(fid, 6, "IfcSite",
                          Get(project_data, "site_name", "Project Site")),
                      RootEntity(fid, 7, "IfcBuilding",
                          Get(project_data, "building_name", "Main Building")),
                      RelAggregates(fid, 8, 2, 6),
                      RelAggregates(fid, 9, 6, 7) >>]]

\* one iteration of the loop of _create_building_storeys: the storey with its
\* elevation, and its aggregation under self.building
CreateStorey(g, bld, storey_data) ==
    AddEntities(g,
        << [Elevation |-> Get(storey_data, "elevation", 0)]
               @@ RootEntity(g.fid, Len(g.ents) + 1, "IfcBuildingStorey",
                             Get(storey_data, "name", "Level")),
           RelAggregates(g.fid, Len(g.ents) + 2, Store(g, bld),
                         Len(g.ents) + 1) >>)

\* _create_building_storeys
RECURSIVE CreateBuildingStoreys(_, _, _)
CreateBuildingStoreys(g, bld, spatial_structure) ==
    IF spatial_structure = <<>> THEN g
    ELSE CreateBuildingStoreys(
             IF Get(Head(spatial_structure), "type", None) = "storey"
             THEN CreateStorey(g, bld, Head(spatial_structure)) ELSE g,
             bld, Tail(spatial_structure))

\* the IfcPropertySingleValue entities of the pset.edit_pset calls
PropertyValues(properties) ==
    [k \in 1..Len(properties) |->
        [type |-> "IfcPropertySingleValue",
         Name |-> properties[k][1],
         NominalValue |-> properties[k][2]]]

\* _create_materials with a property set for every material, whether or not
\* it has properties
MaterialEntities_AlwaysPropertySet(n, material_data) ==
    LET properties == Get(material_data, "properties", <<>>)
    IN  << [type |-> "IfcMaterial",
            Name |-> Get(material_data, "name", "Material")],
           [type |-> "IfcMaterialProperties",
            Name |-> "MaterialProperties",
            Material |-> n + 1,
            Properties |-> [k \in 1..Len(properties) |-> n + 2 + k]] >>
        \o PropertyValues(properties)

\* one iteration of the loop of _create_materials: the material at position
\* n + 1 and, when it has properties, the property set and its values
MaterialEntities(n, material_data) ==
    LET properties == Get(material_data, "properties", <<>>)
    IN  << [type |-> "IfcMaterial",
            Name |-> Get(material_data, "name", "Material")] >>
        \o (IF properties # <<>>
            THEN << [type |-> "IfcMaterialProperties",
                     Name |-> "MaterialProperties",
                     Material |-> n + 1,
                     Properties |-> [k \in 1..Len(properties) |-> n + 2 + k]] >>
                 \o PropertyValues(properties)
            ELSE <<>>)

\* _create_materials: the graph and material_map (id -> position)
RECURSIVE CreateMaterials(_, _, _)
CreateMaterials(g, materials, material_map) ==
    IF materials = <<>> THEN [g |-> g, map |-> material_map]
    ELSE CreateMaterials(
             AddEntities(g, MaterialEntities(Len(g.ents), Head(materials))),
             Tail(materials),
             Put(material_map, Get(Head(materials), "id", None), Len(g.ents) + 1))

RectangleProfileDef == "IfcRectangleProfileDef"
IShapeProfileDef == "IfcIShapeProfileDef"

\* properties.get(...) raises AttributeError when 'properties' is None; only
\* the rectangle and I-shape branches read it
SectionRaises(section_data) ==
    /\ Get(section_data, "type", RectangleProfileDef)
           \in {RectangleProfileDef, IShapeProfileDef}
    /\ IsNone(Get(section_data, "properties", EmptyDict))

\* dimensions of the rectangle created for a section of any other type
FallbackXDim == 300
FallbackYDim == 600

\* a rectangle for every type but the I-shape, with the section's own
\* dimensions
SectionProfile_FallbackUsesProps(section_data) ==
    IF Get(section_data, "type", RectangleProfileDef) = IShapeProfileDef
    THEN [type |-> IShapeProfileDef, ProfileType |-> "AREA",
          ProfileName |-> Get(section_data, "name", "Section"),
          OverallWidth |-> Get(Get(section_data, "properties", EmptyDict),
                               "overall_width", 200),
          OverallDepth |-> Get(Get(section_data, "properties", EmptyDict),
                               "overall_depth", 400),
          WebThickness |-> Get(Get(section_data, "properties", EmptyDict),
                               "web_thickness", 10),
          FlangeThickness |-> Get(Get(section_data, "properties", EmptyDict),
                                  "flange_thickness", 15)]
    ELSE [type |-> RectangleProfileDef, ProfileType |-> "AREA",
          ProfileName |-> Get(section_data, "name", "Section"),
          XDim |-> Get(Get(section_data, "properties", EmptyDict), "x_dim", 300),
          YDim |-> Get(Get(section_data, "properties", EmptyDict), "y_dim", 600)]

\* the profile entity _create_sections creates for one section
SectionProfile(section_data) ==
    LET section_type == Get(section_data, "type", RectangleProfileDef)
        properties == Get(section_data, "properties", EmptyDict)
        name == Get(section_data, "name", "Section")
    IN  IF section_type = RectangleProfileDef
        THEN [type |-> RectangleProfileDef, ProfileType |-> "AREA",
              ProfileName |-> name,
              XDim |-> Get(properties, "x_dim", 300),
              YDim |-> Get(properties, "y_dim", 600)]
        ELSE IF section_type = IShapeProfileDef
        THEN [type |-> IShapeProfileDef, ProfileType |-> "AREA",
              ProfileName |-> name,
              OverallWidth |-> Get(properties, "overall_width", 200),
              OverallDepth |-> Get(properties, "overall_depth", 400),
              WebThickness |-> Get(properties, "web_thickness", 10),
              FlangeThickness |-> Get(properties, "flange_thickness", 15)]
        ELSE [type |-> RectangleProfileDef, ProfileType |-> "AREA",
              ProfileName |-> name,
              XDim |-> FallbackXDim,
              YDim |-> FallbackYDim]

\* _create_sections: the graph, section_map, and whether the loop raised (the
\* graph then holds the profiles created before the section that raised)
RECURSIVE CreateSections(_, _, _)
CreateSections(g, sections, section_map) ==
    IF sections = <<>> THEN [g |-> g, map |-> section_map, raised |-> FALSE]
    ELSE IF SectionRaises(Head(sections))
    THEN [g |-> g, map |-> section_map, raised |-> TRUE]
    ELSE CreateSections(AddEntities(g, <<SectionProfile(Head(sections))>>),
                        Tail(sections),
                        Put(section_map, Get(Head(sections), "id", None), Len(g.ents) + 1))

DOFs == <<"translation_x", "translation_y", "translation_z",
          "rotation_x", "rotation_y", "rotation_z">>

\* the test as `if any DOF is fixed`
HasCondition_AnyFixed(boundary_conditions) ==
    \E k \in 1..6 : Get(boundary_conditions, DOFs[k], None) = "fixed"

\* `if boundary_conditions:` of _create_structural_nodes
HasCondition(boundary_conditions) == Truthy(boundary_conditions)

\* the IfcBoundaryNodeCondition entity built from a boundary_conditions dict
BoundaryNodeCondition(boundary_conditions) ==
    [type |-> "IfcBoundaryNodeCondition",
     Name |-> "BoundaryCondition",
     TranslationalStiffnessX |-> Get(boundary_conditions, "translation_x", None) = "fixed",
     TranslationalStiffnessY |-> Get(boundary_conditions, "translation_y", None) = "fixed",
     TranslationalStiffnessZ |-> Get(boundary_conditions, "translation_z", None) = "fixed",
     RotationalStiffnessX |-> Get(boundary_conditions, "rotation_x", None) = "fixed",
     RotationalStiffnessY |-> Get(boundary_conditions, "rotation_y", None) = "fixed",
     RotationalStiffnessZ |-> Get(boundary_conditions, "rotation_z", None) = "fixed"]

\* the coordinates with the height left out
NodeLocation_XY(node_data) ==
    << Get(node_data, "coordinates", <<0, 0, 0>>)[1],
       Get(node_data, "coordinates", <<0, 0, 0>>)[2], 0 >>

\* the coordinates given to the node's IfcCartesianPoint
NodeLocation(node_data) == Get(node_data, "coordinates", <<0, 0, 0>>)

\* PlacementRelTo of the node's IfcLocalPlacement
NodePlacementRelTo(node_data) == NoneRef

\* one iteration of the loop of _create_structural_nodes: the point
\* connection at position n + 1, its point, axis placement and local
\* placement, and the condition when boundary_conditions is true
NodeEntities(g, node_data) ==
    LET n == Len(g.ents)
        boundary_conditions == Get(node_data, "boundary_conditions", EmptyDict)
    IN  << [ObjectPlacement |-> n + 4,
            AppliedCondition |-> IF HasCondition(boundary_conditions)
                                 THEN n + 5 ELSE 0]
               @@ RootEntity(g.fid, n + 1, "IfcStructuralPointConnection",
                             Get(node_data, "name", "Node")),
           [type |-> "IfcCartesianPoint", Coordinates |-> NodeLocation(node_data)],
           [type |-> "IfcAxis2Placement3D", Location |-> n + 2],
           [type |-> "IfcLocalPlacement",
            PlacementRelTo |-> Store(g, NodePlacementRelTo(node_data)),
            RelativePlacement |-> n + 3] >>
        \o (IF HasCondition(boundary_conditions)
            THEN <<BoundaryNodeCondition(boundary_conditions)>> ELSE <<>>)

\* _create_structural_nodes: the graph and node_map
RECURSIVE CreateStructuralNodes(_, _, _)
CreateStructuralNodes(g, nodes, node_map) ==
    IF nodes = <<>> THEN [g |-> g, map |-> node_map]
    ELSE CreateStructuralNodes(AddEntities(g, NodeEntities(g, Head(nodes))),
             Tail(nodes),
             Put(node_map, Get(Head(nodes), "id", None), Len(g.ents) + 1))

\* an entity class of its own for slabs and walls
ElementClass_SlabsAndWalls(element_type) ==
    IF element_type = "beam" THEN "IfcBeam"
    ELSE IF element_type = "column" THEN "IfcColumn"
    ELSE IF element_type = "slab" THEN "IfcSlab"
    ELSE IF element_type = "wall" THEN "IfcWall"
    ELSE "IfcStructuralMember"

\* the entity class _create_structural_elements picks for an element type
ElementClass(element_type) ==
    IF element_type = "beam" THEN "IfcBeam"
    ELSE IF element_type = "column" THEN "IfcColumn"
    ELSE "IfcStructuralMember"

ElementDefaultName(element_type) ==
    IF element_type = "beam" THEN "Beam"
    ELSE IF element_type = "column" THEN "Column"
    ELSE "Member"

\* one iteration of the loop of _create_structural_elements; node_map and
\* section_map are parameters of the method and are not read by it
ElementEntity(g, element_data, node_map, section_map) ==
    RootEntity(g.fid, Len(g.ents) + 1,
               ElementClass(Get(element_data, "type", "beam")),
               Get(element_data, "name",
                   ElementDefaultName(Get(element_data, "type", "beam"))))

\* _create_structural_elements: the graph and element_map
RECURSIVE CreateStructuralElements(_, _, _, _, _)
CreateStructuralElements(g, elements, node_map, section_map, element_map) ==
    IF elements = <<>> THEN [g |-> g, map |-> element_map]
    ELSE CreateStructuralElements(
             AddEntities(g, <<ElementEntity(g, Head(elements), node_map, section_map)>>),
             Tail(elements), node_map, section_map,
             Put(element_map, Get(Head(elements), "id", None), Len(g.ents) + 1))

SingleForce == "IfcStructuralLoadSingleForce"
LinearForce == "IfcStructuralLoadLinearForce"

\* values.get(...) raises AttributeError when 'values' is None
LoadRaises(load_data) ==
    /\ Get(load_data, "type", SingleForce) = SingleForce
    /\ IsNone(Get(load_data, "values", EmptyDict))

\* _create_loads with an entity of its own kind for a load of any kind
LoadEntities_AllKinds(load_data) ==
    LET values == Get(load_data, "values", EmptyDict)
    IN  << [type |-> Get(load_data, "type", SingleForce),
            Name |-> Get(load_data, "name", "Load")] >>

\* the entities _create_loads creates for one load
LoadEntities(load_data) ==
    LET values == Get(load_data, "values", EmptyDict)
    IN  IF Get(load_data, "type", SingleForce) = SingleForce
        THEN << [type |-> SingleForce,
                 Name |-> Get(load_data, "name", "Load"),
                 ForceX |-> Get(values, "force_x", 0),
                 ForceY |-> Get(values, "force_y", 0),
                 ForceZ |-> Get(values, "force_z", 0),
                 MomentX |-> Get(values, "moment_x", 0),
                 MomentY |-> Get(values, "moment_y", 0),
                 MomentZ |-> Get(values, "moment_z", 0)] >>
        ELSE <<>>

\* _create_loads: the graph and whether the loop raised
RECURSIVE CreateLoads(_, _)
CreateLoads(g, loads) ==
    IF loads = <<>> THEN [g |-> g, raised |-> FALSE]
    ELSE IF LoadRaises(Head(loads)) THEN [g |-> g, raised |-> TRUE]
    ELSE CreateLoads(AddEntities(g, LoadEntities(Head(loads))), Tail(loads))

\* a load case entity that copies the fields and fills in nothing
LoadCaseEntity_NoDefaults(g, load_case_data) ==
    [ActionType |-> Get(load_case_data, "action_type", None),
     ActionSource |-> Get(load_case_data, "action_source", None)]
        @@ RootEntity(g.fid, Len(g.ents) + 1, "IfcStructuralLoadCase",
                      Get(load_case_data, "name", "Load Case"))

\* the entity _create_load_cases creates for one load case
LoadCaseEntity(g, load_case_data) ==
    [ActionType |-> Get(load_case_data, "action_type", "PERMANENT_G"),
     ActionSource |-> Get(load_case_data, "action_source", "DEAD_LOAD_G")]
        @@ RootEntity(g.fid, Len(g.ents) + 1, "IfcStructuralLoadCase",
                      Get(load_case_data, "name", "Load Case"))

\* _create_load_cases
RECURSIVE CreateLoadCases(_, _)
CreateLoadCases(g, load_cases) ==
    IF load_cases = <<>> THEN g
    ELSE CreateLoadCases(AddEntities(g, <<LoadCaseEntity(g, Head(load_cases))>>),
                         Tail(load_cases))

-----------------------------------------------------------------------------
(* Import: extraction from the graph *)

\* entity.is_a(cls) and file.by_type(cls) follow the schema's subtypes
Subtypes(cls) ==
    IF cls = "IfcProfileDef"
    THEN {"IfcProfileDef", RectangleProfileDef, IShapeProfileDef,
          "IfcCircleProfileDef", "IfcRectangleHollowProfileDef"}
    ELSE IF cls = RectangleProfileDef
    THEN {RectangleProfileDef, "IfcRectangleHollowProfileDef"}
    ELSE IF cls = "IfcStructuralLoad"
    THEN {"IfcStructuralLoad", SingleForce, LinearForce,
          "IfcStructuralLoadTemperature"}
    ELSE {cls}

IsA(e, cls) == e.type \in Subtypes(cls)

ByType(ents, cls) == ByTypes(ents, Subtypes(cls), 1)

\* 3x3 integer matrices and vectors, as tuples
MatVec(m, v) == [r \in 1..3 |-> m[r][1] * v[1] + m[r][2] * v[2] + m[r][3] * v[3]]

MatMul(a, b) ==
    [r \in 1..3 |-> [c \in 1..3 |->
        a[r][1] * b[1][c] + a[r][2] * b[2][c] + a[r][3] * b[3][c]]]

Cross(a, b) == <<a[2] * b[3] - a[3] * b[2],
                 a[3] * b[1] - a[1] * b[3],
                 a[1] * b[2] - a[2] * b[1]>>

\* coordinates of a point, padded to three
Coords3(c) == [k \in 1..3 |-> IF k <= Len(c) THEN c[k] ELSE 0]

\* the local transform of an IfcAxis2Placement3D: columns x, y, z and origin
AxisPlacement(ents, a) ==
    LET z == Get(ents[a], "Axis", <<0, 0, 1>>)
        x == Get(ents[a], "RefDirection", <<1, 0, 0>>)
        y == Cross(z, x)
        loc == ents[a].Location
    IN  [rot |-> [r \in 1..3 |-> <<x[r], y[r], z[r]>>],
         trans |-> IF loc >= 1 THEN Coords3(ents[loc].Coordinates)
                   ELSE <<0, 0, 0>>]

\* a composition that drops the parent
Compose_LocalOnly(parent, local) == local

\* the transform local expressed in the frame of the transform parent
Compose(parent, local) ==
    [rot |-> MatMul(parent.rot, local.rot),
     trans |-> [k \in 1..3 |->
                   MatVec(parent.rot, local.trans)[k] + parent.trans[k]]]

\* ifcopenshell.util.placement.get_local_placement: the placement composed
\* with the placements it is relative to, up to the root
RECURSIVE GetLocalPlacement(_, _)
GetLocalPlacement(ents, p) ==
    IF ents[p].PlacementRelTo >= 1
    THEN Compose(GetLocalPlacement(ents, ents[p].PlacementRelTo),
                 AxisPlacement(ents, ents[p].RelativePlacement))
    ELSE AxisPlacement(ents, ents[p].RelativePlacement)

\* _extract_point_coordinates
ExtractPointCoordinates(ents, c) ==
    IF Get(ents[c], "ObjectPlacement", 0) >= 1
    THEN GetLocalPlacement(ents, ents[c].ObjectPlacement).trans
    ELSE <<0, 0, 0>>

Stiffness == <<"TranslationalStiffnessX", "TranslationalStiffnessY",
               "TranslationalStiffnessZ", "RotationalStiffnessX",
               "RotationalStiffnessY", "RotationalStiffnessZ">>

\* _extract_boundary_conditions with every degree fixed once a condition is
\* applied, whatever its flags
ExtractBoundaryConditions_FixedIfApplied(ents, c) ==
    LET a == Get(ents[c], "AppliedCondition", 0)
        read == a >= 1 /\ ents[a].type = "IfcBoundaryNodeCondition"
    IN  [d \in {DOFs[k] : k \in 1..6} |-> IF read THEN "fixed" ELSE "free"]

\* _extract_boundary_conditions: DOF name -> 'fixed' / 'free'
ExtractBoundaryConditions(ents, c) ==
    LET a == Get(ents[c], "AppliedCondition", 0)
        read == a >= 1 /\ ents[a].type = "IfcBoundaryNodeCondition"
    IN  [d \in {DOFs[k] : k \in 1..6} |->
            LET k == CHOOSE j \in 1..6 : DOFs[j] = d
            IN  IF read /\ Get(ents[a], Stiffness[k], FALSE)
                THEN "fixed" ELSE "free"]

\* _extract_structural_nodes
ExtractStructuralNodes(ents) ==
    LET point_connections == ByType(ents, "IfcStructuralPointConnection")
    IN  [n \in 1..Len(point_connections) |->
            LET c == point_connections[n]
            IN  [id |-> ents[c].GlobalId,
                 name |-> IF ents[c].Name \in {None, ""}
                          THEN "N" \o ToString(n) ELSE ents[c].Name,
                 boundary_conditions |-> ExtractBoundaryConditions(ents, c),
                 coordinates |-> ExtractPointCoordinates(ents, c)]]

\* _extract_profile_data
ExtractProfileData(profile) ==
    LET base == [name |-> profile.ProfileName, type |-> profile.type]
    IN  IF IsA(profile, RectangleProfileDef)
        THEN [x_dim |-> profile.XDim, y_dim |-> profile.YDim] @@ base
        ELSE IF IsA(profile, IShapeProfileDef)
        THEN [overall_width |-> profile.OverallWidth,
              overall_depth |-> profile.OverallDepth,
              web_thickness |-> profile.WebThickness,
              flange_thickness |-> profile.FlangeThickness] @@ base
        ELSE base

\* the record _extract_sections appends for the profile at position p
SectionData(ents, p) ==
    [id |-> p,
     name |-> ents[p].ProfileName,
     type |-> ents[p].type,
     properties |-> ExtractProfileData(ents[p])]

\* the profile entities of the two types _extract_profile_data reads
SectionProfiles_RecognizedOnly(ents) ==
    ByTypes(ents, Subtypes(RectangleProfileDef) \cup Subtypes(IShapeProfileDef), 1)

\* the profile entities _extract_sections makes records of
SectionProfiles(ents) == ByType(ents, "IfcProfileDef")

\* _extract_sections
ExtractSections(ents) ==
    LET profiles == SectionProfiles(ents)
    IN  [k \in 1..Len(profiles) |-> SectionData(ents, profiles[k])]

\* _extract_building_info with nothing read when there is no project
ExtractBuildingInfo_ProjectOnly(ents) ==
    LET projects == ByType(ents, "IfcProject")
    IN  IF projects # <<>>
        THEN [project_name |-> ents[projects[1]].Name,
              project_description |-> ents[projects[1]].Description]
        ELSE EmptyDict

\* _extract_building_info: the keys of the first project, when there is one,
\* and those of the first building, when there is one
ExtractBuildingInfo(ents) ==
    LET projects == ByType(ents, "IfcProject")
        buildings == ByType(ents, "IfcBuilding")
        address == IF buildings # <<>>
                   THEN Get(ents[buildings[1]], "BuildingAddress", 0) ELSE 0
    IN  (IF projects # <<>>
         THEN [project_name |-> ents[projects[1]].Name,
               project_description |-> ents[projects[1]].Description]
         ELSE EmptyDict)
        @@ (IF buildings # <<>>
            THEN [building_name |-> ents[buildings[1]].Name,
                  building_description |-> ents[buildings[1]].Description]
            ELSE EmptyDict)
        @@ (IF address >= 1
            THEN [address |->
                    [street |-> IF ents[address].AddressLines # <<>>
                                THEN ents[address].AddressLines[1] ELSE None,
                     city |-> ents[address].Town,
                     country |-> ents[address].Country,
                     postal_code |-> ents[address].PostalCode]]
            ELSE EmptyDict)

\* _extract_spatial_structure that gives a space a null elevation
ExtractSpatialStructure_NullElevation(ents) ==
    LET storeys == ByType(ents, "IfcBuildingStorey")
        spaces == ByType(ents, "IfcSpace")
    IN  [k \in 1..Len(storeys) |->
            [id |-> ents[storeys[k]].GlobalId,
             name |-> ents[storeys[k]].Name,
             type |-> "storey",
             description |-> ents[storeys[k]].Description,
             elevation |-> Get(ents[storeys[k]], "Elevation", 0)]]
        \o [k \in 1..Len(spaces) |->
            [id |-> ents[spaces[k]].GlobalId,
             name |-> ents[spaces[k]].Name,
             type |-> "space",
             description |-> ents[spaces[k]].Description,
             elevation |-> None]]

\* _extract_spatial_structure: the storeys, then the spaces
ExtractSpatialStructure(ents) ==
    LET storeys == ByType(ents, "IfcBuildingStorey")
        spaces == ByType(ents, "IfcSpace")
    IN  [k \in 1..Len(storeys) |->
            [id |-> ents[storeys[k]].GlobalId,
             name |-> ents[storeys[k]].Name,
             type |-> "storey",
             description |-> ents[storeys[k]].Description,
             elevation |-> Get(ents[storeys[k]], "Elevation", 0)]]
        \o [k \in 1..Len(spaces) |->
            [id |-> ents[spaces[k]].GlobalId,
             name |-> ents[spaces[k]].Name,
             type |-> "space",
             description |-> ents[spaces[k]].Description]]

\* the dict {prop.Name: prop.NominalValue} of the IfcPropertySingleValue
\* entities at the given positions
SingleValues(ents, props) ==
    LET single == {props[k] : k \in 1..Len(props)}
                      \cap IndicesOfType(ents, "IfcPropertySingleValue")
    IN  [n \in {ents[q].Name : q \in single} |->
            LET q == CHOOSE q \in single :
                         /\ ents[q].Name = n
                         /\ \A r \in single : ents[r].Name = n => r <= q
            IN  ents[q].NominalValue]

\* the single values of the given property lists, a later list overwriting
\* an earlier one
RECURSIVE MergedValues(_, _)
MergedValues(ents, lists) ==
    IF lists = <<>> THEN EmptyDict
    ELSE SingleValues(ents, lists[Len(lists)])
             @@ MergedValues(ents, SubSeq(lists, 1, Len(lists) - 1))

\* the sequence of the values of the field of the entities at the positions
FieldOf(ents, positions, field) ==
    [k \in 1..Len(positions) |-> ents[positions[k]][field]]

\* _extract_material_properties: the single values of the material's
\* IfcMaterialProperties sets
ExtractMaterialProperties(ents, m) ==
    MergedValues(ents,
        FieldOf(ents, SelectSeq(ByType(ents, "IfcMaterialProperties"),
                                LAMBDA q : ents[q].Material = m),
                "Properties"))

\* _extract_materials
ExtractMaterials(ents) ==
    LET ifc_materials == ByType(ents, "IfcMaterial")
    IN  [k \in 1..Len(ifc_materials) |->
            [id |-> ifc_materials[k],
             name |-> ents[ifc_materials[k]].Name,
             description |-> Get(ents[ifc_materials[k]], "Description", None),
             properties |-> ExtractMaterialProperties(ents, ifc_materials[k])]]

\* _extract_load_values without the 0.0 of an absent attribute: only the
\* components the entity has
ExtractLoadValues_PresentOnly(load) ==
    LET Present(key, field) ==
            IF field \in DOMAIN load THEN key :> load[field] ELSE EmptyDict
    IN  IF IsA(load, SingleForce)
        THEN Present("force_x", "ForceX") @@ Present("force_y", "ForceY")
             @@ Present("force_z", "ForceZ") @@ Present("moment_x", "MomentX")
             @@ Present("moment_y", "MomentY") @@ Present("moment_z", "MomentZ")
        ELSE IF IsA(load, LinearForce)
        THEN Present("linear_force_x", "LinearForceX")
             @@ Present("linear_force_y", "LinearForceY")
             @@ Present("linear_force_z", "LinearForceZ")
             @@ Present("linear_moment_x", "LinearMomentX")
             @@ Present("linear_moment_y", "LinearMomentY")
             @@ Present("linear_moment_z", "LinearMomentZ")
        ELSE EmptyDict

\* _extract_load_values: six components for a point load and for a linear
\* load, each 0.0 when the entity has no such attribute; nothing otherwise
ExtractLoadValues(load) ==
    IF IsA(load, SingleForce)
    THEN [force_x |-> Get(load, "ForceX", 0),
          force_y |-> Get(load, "ForceY", 0),
          force_z |-> Get(load, "ForceZ", 0),
          moment_x |-> Get(load, "MomentX", 0),
          moment_y |-> Get(load, "MomentY", 0),
          moment_z |-> Get(load, "MomentZ", 0)]
    ELSE IF IsA(load, LinearForce)
    THEN [linear_force_x |-> Get(load, "LinearForceX", 0),
          linear_force_y |-> Get(load, "LinearForceY", 0),
          linear_force_z |-> Get(load, "LinearForceZ", 0),
          linear_moment_x |-> Get(load, "LinearMomentX", 0),
          linear_moment_y |-> Get(load, "LinearMomentY", 0),
          linear_moment_z |-> Get(load, "LinearMomentZ", 0)]
    ELSE EmptyDict

\* _extract_loads
ExtractLoads(ents) ==
    LET structural_loads == ByType(ents, "IfcStructuralLoad")
    IN  [k \in 1..Len(structural_loads) |->
            [id |-> structural_loads[k],
             name |-> Get(ents[structural_loads[k]], "Name", None),
             type |-> ents[structural_loads[k]].type,
             values |-> ExtractLoadValues(ents[structural_loads[k]])]]

\* _extract_load_cases
ExtractLoadCases(ents) ==
    LET ifc_load_cases == ByType(ents, "IfcStructuralLoadCase")
    IN  [k \in 1..Len(ifc_load_cases) |->
            [id |-> ents[ifc_load_cases[k]].GlobalId,
             name |-> ents[ifc_load_cases[k]].Name,
             description |-> Get(ents[ifc_load_cases[k]], "Description", None),
             action_type |-> Get(ents[ifc_load_cases[k]], "ActionType", None),
             action_source |-> Get(ents[ifc_load_cases[k]], "ActionSource", None)]]

\* _extract_geometry: the placement; the graphs of the model carry no
\* representation
ExtractGeometry(ents, i) ==
    [placement |->
        IF Get(ents[i], "ObjectPlacement", 0) >= 1
        THEN [location |-> GetLocalPlacement(ents, ents[i].ObjectPlacement).trans,
              rotation_matrix |-> GetLocalPlacement(ents, ents[i].ObjectPlacement).rot]
        ELSE NoneDict,
     representation |-> None,
     bounding_box |-> None]

\* the relations of the given type that relate the entity at position i
RelationsOf(ents, i, rel_type) ==
    SelectSeq(ByTypes(ents, {rel_type}, 1),
              LAMBDA r : \E k \in 1..Len(ents[r].RelatedObjects) :
                             ents[r].RelatedObjects[k] = i)

\* the first layer of a layer-set usage cannot be read: the layer set has no
\* layers (IndexError) or its first layer has no material (AttributeError)
FirstLayerRaises(ents, usage) ==
    \/ ents[ents[usage].ForLayerSet].MaterialLayers = <<>>
    \/ ents[ents[ents[usage].ForLayerSet].MaterialLayers[1]].Material = 0

\* _extract_element_material reading the first association and no other
ElementMaterial_FirstOnly(ents, associations) ==
    IF associations = <<>> THEN [raised |-> FALSE, value |-> None]
    ELSE LET material == ents[Head(associations)].RelatingMaterial
         IN  IF ents[material].type = "IfcMaterial"
             THEN [raised |-> FALSE, value |-> ents[material].Name]
             ELSE IF ents[material].type = "IfcMaterialLayerSetUsage"
             THEN IF FirstLayerRaises(ents, material)
                  THEN [raised |-> TRUE, value |-> None]
                  ELSE [raised |-> FALSE,
                        value |-> ents[ents[ents[ents[material].ForLayerSet]
                                      .MaterialLayers[1]].Material].Name]
             ELSE [raised |-> FALSE, value |-> None]

\* the loop of _extract_element_material over the associations: the name
\* returned, or that the loop raised
RECURSIVE ElementMaterial(_, _)
ElementMaterial(ents, associations) ==
    IF associations = <<>> THEN [raised |-> FALSE, value |-> None]
    ELSE LET material == ents[Head(associations)].RelatingMaterial
         IN  IF ents[material].type = "IfcMaterial"
             THEN [raised |-> FALSE, value |-> ents[material].Name]
             ELSE IF ents[material].type = "IfcMaterialLayerSetUsage"
             THEN IF FirstLayerRaises(ents, material)
                  THEN [raised |-> TRUE, value |-> None]
                  ELSE [raised |-> FALSE,
                        value |-> ents[ents[ents[ents[material].ForLayerSet]
                                      .MaterialLayers[1]].Material].Name]
             ELSE ElementMaterial(ents, Tail(associations))

\* _extract_element_material
ExtractElementMaterial(ents, i) ==
    ElementMaterial(ents, RelationsOf(ents, i, "IfcRelAssociatesMaterial"))

\* _extract_element_properties: the single values of the IfcPropertySet sets
\* that define the element
ExtractElementProperties(ents, i) ==
    MergedValues(ents,
        FieldOf(ents,
            FieldOf(ents,
                SelectSeq(RelationsOf(ents, i, "IfcRelDefinesByProperties"),
                    LAMBDA r : ents[ents[r].RelatingPropertyDefinition].type
                                   = "IfcPropertySet"),
                "RelatingPropertyDefinition"),
            "HasProperties"))

\* _extract_element_data
ExtractElementData(ents, i, element_type) ==
    [id |-> ents[i].GlobalId,
     name |-> ents[i].Name,
     type |-> element_type,
     description |-> ents[i].Description,
     geometry |-> ExtractGeometry(ents, i),
     material |-> ExtractElementMaterial(ents, i).value,
     properties |-> ExtractElementProperties(ents, i)]

\* _extract_structural_member_data
ExtractStructuralMemberData(ents, i) ==
    [predefined_type |-> Get(ents[i], "PredefinedType", None)]
        @@ ExtractElementData(ents, i, "structural_member")

\* property-set names whose lower-cased form contains 'structural'
StructuralNames == {"Pset_StructuralWall", "STRUCTURAL"}

\* _is_structural_wall: some property set that defines the wall has
\* 'structural' in its lower-cased name
IsStructuralWall(ents, w) ==
    \E d \in IndicesOfType(ents, "IfcRelDefinesByProperties") :
        /\ w \in {ents[d].RelatedObjects[k] : k \in 1..Len(ents[d].RelatedObjects)}
        /\ ents[d].RelatingPropertyDefinition >= 1
        /\ ents[ents[d].RelatingPropertyDefinition].Name \in StructuralNames

RECURSIVE ElementsOf(_, _, _)
ElementsOf(ents, positions, element_type) ==
    IF positions = <<>> THEN <<>>
    ELSE (IF element_type = "wall" /\ ~IsStructuralWall(ents, Head(positions))
          THEN <<>>
          ELSE IF element_type = "structural_member"
          THEN <<ExtractStructuralMemberData(ents, Head(positions))>>
          ELSE <<ExtractElementData(ents, Head(positions), element_type)>>)
         \o ElementsOf(ents, Tail(positions), element_type)

\* _extract_structural_elements: beams, columns, slabs, structural walls,
\* structural members, in that order
ExtractStructuralElements(ents) ==
    ElementsOf(ents, ByType(ents, "IfcBeam"), "beam")
    \o ElementsOf(ents, ByType(ents, "IfcColumn"), "column")
    \o ElementsOf(ents, ByType(ents, "IfcSlab"), "slab")
    \o ElementsOf(ents, ByType(ents, "IfcWall"), "wall")
    \o ElementsOf(ents, ByType(ents, "IfcStructuralMember"), "structural_member")

\* whether _extract_structural_elements raises: the material of some element
\* it extracts cannot be read
ExtractionRaises(ents) ==
    \E i \in 1..Len(ents) :
        /\ \/ ents[i].type \in {"IfcBeam", "IfcColumn", "IfcSlab", "IfcStructuralMember"}
           \/ ents[i].type = "IfcWall" /\ IsStructuralWall(ents, i)
        /\ ExtractElementMaterial(ents, i).raised

\* the bundle import_structural_model returns
ImportResult(ents) ==
    [nodes |-> ExtractStructuralNodes(ents),
     elements |-> ExtractStructuralElements(ents),
     materials |-> ExtractMaterials(ents),
     sections |-> ExtractSections(ents),
     loads |-> ExtractLoads(ents),
     load_cases |-> ExtractLoadCases(ents),
     building_info |-> ExtractBuildingInfo(ents),
     spatial_structure |-> ExtractSpatialStructure(ents)]

-----------------------------------------------------------------------------
(* The calls *)

\* export_structural_model, lines 114-116: the fields after `if not
\* self.ifc_file: self.create_new_ifc_project(...)`; fid is the file object a
\* new project gets
EnsureProject(self, fid, structural_data) ==
    IF self.ifc_file = NoFile
    THEN LET r == CreateNewIfcProject(fid,
                      Get(structural_data, "project_info", EmptyDict))
         IN  [ifc_file |-> r.g, project |-> r.project, site |-> r.site,
              building |-> r.building]
    ELSE self

\* lines 118-122: storeys and materials
StoreysAndMaterials(self, structural_data) ==
    [self EXCEPT !.ifc_file =
        CreateMaterials(
            CreateBuildingStoreys(self.ifc_file, self.building,
                Get(structural_data, "spatial_structure", <<>>)),
            Get(structural_data, "materials", <<>>), <<>>).g]

\* lines 124-125: sections; st gets section_map and whether the step raised
SectionsStep(self, structural_data) ==
    LET sec == CreateSections(self.ifc_file,
                   Get(structural_data, "sections", <<>>), <<>>)
    IN  [ifc_file |-> sec.g, project |-> self.project, site |-> self.site,
         building |-> self.building, section_map |-> sec.map,
         raised |-> sec.raised]

\* lines 127-135: nodes, then elements with node_map and section_map
NodesAndElements(st, structural_data) ==
    IF st.raised THEN st
    ELSE LET nod == CreateStructuralNodes(st.ifc_file,
                        Get(structural_data, "nodes", <<>>), <<>>)
         IN  [st EXCEPT !.ifc_file =
                 CreateStructuralElements(nod.g,
                     Get(structural_data, "elements", <<>>),
                     nod.map, st.section_map, <<>>).g]

\* lines 137-141: loads, then load cases
LoadsAndLoadCases(st, structural_data) ==
    IF st.raised THEN st
    ELSE LET lod == CreateLoads(st.ifc_file, Get(structural_data, "loads", <<>>))
         IN  IF lod.raised
             THEN [st EXCEPT !.ifc_file = lod.g, !.raised = TRUE]
             ELSE [st EXCEPT !.ifc_file =
                      CreateLoadCases(lod.g,
                          Get(structural_data, "load_cases", <<>>))]

\* export_structural_model up to the write, on a processor whose fields are
\* the record self: the fields after the call and whether a step raised
ExportSteps(self, fid, structural_data) ==
    LoadsAndLoadCases(
        NodesAndElements(
            SectionsStep(
                StoreysAndMaterials(
                    EnsureProject(self, fid, structural_data),
                    structural_data),
                structural_data),
            structural_data),
        structural_data)

\* _configure_for_revit, _configure_for_tekla on a processor that has a
\* graph: the first IfcApplication, if there is one, gets the name and version
ConfigureFor(self, full_name) ==
    LET applications == ByType(self.ifc_file.ents, "IfcApplication")
    IN  IF applications = <<>> THEN self
        ELSE [self EXCEPT !.ifc_file.ents[applications[1]] =
                 [ApplicationFullName |-> full_name, Version |-> "2024"] @@ @]

\* a write that does not wait for the steps to complete
Write_Partial(st, on_disk) == <<st.ifc_file.ents>>

\* self.ifc_file.write(output_path): the graph at the path after a call whose
\* steps ended in the state st; the write is the last statement
Write(st, on_disk) == IF st.raised THEN on_disk ELSE <<st.ifc_file.ents>>

Self == [ifc_file |-> ifc_file, project |-> project, site |-> site,
         building |-> building]

CallRecord(op, data, outcome, start, fresh, written, result) ==
    [op |-> op, data |-> data, outcome |-> outcome, start |-> start,
     fresh |-> fresh, written |-> written, result |-> result]

NoCall == CallRecord("none", EmptyDict, "ok", 0, FALSE, <<>>, EmptyDict)

-----------------------------------------------------------------------------
(* Inputs: the bundles given to export and the graphs of other tools *)

AllFree == [translation_x |-> "free", translation_y |-> "free",
            translation_z |-> "free", rotation_x |-> "free",
            rotation_y |-> "free", rotation_z |-> "free"]

Pinned == [translation_x |-> "fixed", translation_y |-> "fixed",
           translation_z |-> "fixed", rotation_x |-> "free",
           rotation_y |-> "free", rotation_z |-> "free"]

\* nodes, elements, loads and load cases of a bundle
NodePart(v) ==
    CASE v = 1 -> EmptyDict
      [] v = 2 ->
         [nodes |-> <<[id |-> "N1", name |-> "Node 1",
                       boundary_conditions |-> AllFree,
                       coordinates |-> <<0, 0, 0>>],
                      [id |-> "N2", name |-> "Node 2",
                       boundary_conditions |-> Pinned,
                       coordinates |-> <<4, 0, 3>>]>>,
          elements |-> <<[id |-> "E1", name |-> "Beam 1", type |-> "beam",
                          nodeIds |-> <<"N1", "N2">>, section_id |-> "S1"],
                         [id |-> "E2", name |-> "Column 1", type |-> "column",
                          nodeIds |-> <<"N2", "N1">>, section_id |-> "S1"]>>,
          loads |-> <<[id |-> "L1", name |-> "P", type |-> SingleForce,
                       values |-> [force_z |-> -10]],
                      [id |-> "L2", name |-> "q", type |-> LinearForce,
                       values |-> [linear_force_z |-> -5]],
                      [id |-> "L3", name |-> "dT",
                       type |-> "IfcStructuralLoadTemperature",
                       values |-> NoneDict],
                      [id |-> "L4", values |-> [moment_y |-> 7]]>>]
      [] v = 3 ->
         [nodes |-> <<[id |-> "N1", name |-> "Node 1", coordinates |-> <<1, 2, 3>>]>>,
          elements |-> <<[id |-> "E1", name |-> "Wall 1", type |-> "wall",
                          nodeIds |-> <<"N1", "N9">>, section_id |-> "S9"],
                         [id |-> "E2", type |-> "brace"]>>,
          load_cases |-> <<[id |-> "LC1", name |-> "Dead"]>>]
      [] v = 4 ->
         [nodes |-> <<[id |-> "N1", boundary_conditions |-> [rotation_z |-> "fixed"]],
                      [id |-> "N2", boundary_conditions |-> EmptyDict,
                       coordinates |-> <<-2, 5, 0>>]>>,
          elements |-> <<[id |-> "E1", nodeIds |-> <<"N1", "N2">>],
                         [id |-> "E2", type |-> "slab", nodeIds |-> <<"N2", "N1">>]>>,
          load_cases |-> <<[id |-> "LC1", name |-> "Live",
                            action_type |-> "VARIABLE_Q",
                            action_source |-> "LIVE_LOAD_Q"],
                           [id |-> "LC2", action_type |-> "EXTRAORDINARY_A"]>>]

\* project information, storeys, materials and sections of a bundle
SectionPart(v) ==
    CASE v = 1 -> [project_info |-> [name |-> "Tower"]]
      [] v = 2 ->
         [spatial_structure |-> <<[id |-> "L1", name |-> "Level 1",
                                   type |-> "storey", elevation |-> 3]>>,
          materials |-> <<[id |-> "M1", name |-> "Concrete C30",
                           properties |-> <<<<"compressive_strength", 30>>,
                                            <<"elastic_modulus", 32000>>>>]>>,
          sections |-> <<[id |-> "S1", name |-> "200x400",
                          type |-> RectangleProfileDef,
                          properties |-> [x_dim |-> 200, y_dim |-> 400]]>>]
      [] v = 3 ->
         [spatial_structure |-> <<[id |-> "L1", name |-> "Level 1",
                                   type |-> "storey", elevation |-> 3],
                                  [id |-> "P1", name |-> "Room", type |-> "space"],
                                  [id |-> "L2", type |-> "storey", elevation |-> 6]>>,
          materials |-> <<[id |-> "M1"]>>,
          sections |-> <<[id |-> "S1", name |-> "D100",
                          type |-> "IfcCircleProfileDef",
                          properties |-> [x_dim |-> 100, y_dim |-> 100]],
                         [id |-> "S2", name |-> "I150",
                          type |-> IShapeProfileDef,
                          properties |-> [overall_width |-> 150]],
                         [id |-> "S3", type |-> "T", properties |-> NoneDict]>>]
      [] v = 4 ->
         [spatial_structure |-> <<[id |-> "L1", type |-> "storey"]>>,
          sections |-> <<[id |-> "S2"],
                         [id |-> "S1", type |-> RectangleProfileDef,
                          properties |-> NoneDict]>>]

NodeParts == 1..4
SectionParts == 1..4

Bundle(nv, sv) == SectionPart(sv) @@ NodePart(nv)

\* the bundles export is called with
Bundles == {Bundle(nv, sv) : nv \in NodeParts, sv \in SectionParts}

\* the bundles given to export_for_revit and export_for_tekla
VariantBundles == {Bundle(2, 2), Bundle(3, 4)}

\* the project data create_new_ifc_project is called with
ProjectData == {EmptyDict, [name |-> "Tower", site_name |-> "Lot 7"]}

\* A graph written by another tool: no project; a storey placement at
\* z = 3 rotated a quarter turn about z, a point connection and a beam placed
\* relative to it, a point connection with no placement, profiles of four
\* types, a building with an address, a point load and a linear load with
\* some of their components, a temperature load, an application, a column
\* placed through a chain of three translations (lengths in millimetres)
\* with a layered material, and a wall with a structural property set.
ExternalGraph ==
    << [type |-> "IfcCartesianPoint", Coordinates |-> <<0, 0, 3>>],
       [type |-> "IfcAxis2Placement3D", Location |-> 1,
        RefDirection |-> <<0, 1, 0>>],
       [type |-> "IfcLocalPlacement", PlacementRelTo |-> 0, RelativePlacement |-> 2],
       [type |-> "IfcCartesianPoint", Coordinates |-> <<2, 0, 1>>],
       [type |-> "IfcAxis2Placement3D", Location |-> 4],
       [type |-> "IfcLocalPlacement", PlacementRelTo |-> 3, RelativePlacement |-> 5],
       [type |-> "IfcBoundaryNodeCondition", Name |-> "Support",
        TranslationalStiffnessX |-> TRUE, TranslationalStiffnessY |-> FALSE,
        TranslationalStiffnessZ |-> TRUE, RotationalStiffnessX |-> FALSE,
        RotationalStiffnessY |-> FALSE, RotationalStiffnessZ |-> FALSE],
       [type |-> "IfcStructuralPointConnection", GlobalId |-> <<0, 8>>,
        Name |-> "A", Description |-> None,
        ObjectPlacement |-> 6, AppliedCondition |-> 7],
       [type |-> "IfcStructuralPointConnection", GlobalId |-> <<0, 9>>,
        Name |-> None, Description |-> None,
        ObjectPlacement |-> 0, AppliedCondition |-> 0],
       [type |-> "IfcBeam", GlobalId |-> <<0, 10>>, Name |-> "B1",
        Description |-> None, ObjectPlacement |-> 6],
       [type |-> "IfcCircleProfileDef", ProfileType |-> "AREA",
        ProfileName |-> "D100", Radius |-> 50],
       [type |-> "IfcRectangleHollowProfileDef", ProfileType |-> "AREA",
        ProfileName |-> "RHS", XDim |-> 100, YDim |-> 200, WallThickness |-> 5],
       [type |-> RectangleProfileDef, ProfileType |-> "AREA",
        ProfileName |-> "R", XDim |-> 300, YDim |-> 500],
       [type |-> IShapeProfileDef, ProfileType |-> "AREA",
        ProfileName |-> "I", OverallWidth |-> 150, OverallDepth |-> 300,
        WebThickness |-> 7, FlangeThickness |-> 11],
       [type |-> "IfcBuilding", GlobalId |-> <<0, 15>>, Name |-> "Annex",
        Description |-> None, BuildingAddress |-> 16],
       [type |-> "IfcPostalAddress", AddressLines |-> <<"1 Main St">>,
        Town |-> "Springfield", Country |-> None, PostalCode |-> None],
       [type |-> SingleForce, Name |-> "P", ForceZ |-> -10, MomentX |-> 2],
       [type |-> LinearForce, Name |-> "W", LinearForceZ |-> -5],
       [type |-> "IfcStructuralLoadTemperature", Name |-> "T",
        DeltaTConstant |-> 20],
       [type |-> "IfcApplication", ApplicationFullName |-> "Other Tool",
        Version |-> "7"],
       [type |-> "IfcCartesianPoint", Coordinates |-> <<0, 0, 0>>],
       [type |-> "IfcAxis2Placement3D", Location |-> 21],
       [type |-> "IfcLocalPlacement", PlacementRelTo |-> 0, RelativePlacement |-> 22],
       [type |-> "IfcCartesianPoint", Coordinates |-> <<0, 0, 3000>>],
       [type |-> "IfcAxis2Placement3D", Location |-> 24],
       [type |-> "IfcLocalPlacement", PlacementRelTo |-> 23, RelativePlacement |-> 25],
       [type |-> "IfcCartesianPoint", Coordinates |-> <<0, 0, 3500>>],
       [type |-> "IfcAxis2Placement3D", Location |-> 27],
       [type |-> "IfcLocalPlacement", PlacementRelTo |-> 26, RelativePlacement |-> 28],
       [type |-> "IfcColumn", GlobalId |-> <<0, 30>>, Name |-> "C1",
        Description |-> None, ObjectPlacement |-> 29],
       [type |-> "IfcMaterial", Name |-> "Concrete"],
       [type |-> "IfcMaterialLayer", Material |-> 31],
       [type |-> "IfcMaterialLayerSet", MaterialLayers |-> <<32>>],
       [type |-> "IfcMaterialLayerSetUsage", ForLayerSet |-> 33],
       [type |-> "IfcRelAssociatesMaterial", RelatedObjects |-> <<30>>,
        RelatingMaterial |-> 34],
       [type |-> "IfcPropertySingleValue", Name |-> "LoadBearing",
        NominalValue |-> 1],
       [type |-> "IfcPropertySet", Name |-> "Pset_StructuralWall",
        HasProperties |-> <<36>>],
       [type |-> "IfcWall", GlobalId |-> <<0, 38>>, Name |-> "W1",
        Description |-> None, ObjectPlacement |-> 0],
       [type |-> "IfcRelDefinesByProperties", RelatedObjects |-> <<38>>,
        RelatingPropertyDefinition |-> 37],
       [type |-> "IfcMaterialList", Materials |-> <<31>>],
       [type |-> "IfcRelAssociatesMaterial", RelatedObjects |-> <<38>>,
        RelatingMaterial |-> 40],
       [type |-> "IfcMaterial", Name |-> "Masonry"],
       [type |-> "IfcRelAssociatesMaterial", RelatedObjects |-> <<38, 30>>,
        RelatingMaterial |-> 42],
       [type |-> "IfcSpace", GlobalId |-> <<0, 44>>, Name |-> "Room 1",
        Description |-> None],
       [type |-> "IfcBuildingStorey", GlobalId |-> <<0, 45>>,
        Name |-> "Ground", Description |-> None, Elevation |-> 3000] >>

\* a file of another tool in which a slab has a layered material whose layer
\* set has no layers, and a beam a layer without a material
LayersGraph ==
    << [type |-> "IfcSlab", GlobalId |-> <<0, 1>>, Name |-> "S1",
        Description |-> None, ObjectPlacement |-> 0],
       [type |-> "IfcMaterialLayerSet", MaterialLayers |-> <<>>],
       [type |-> "IfcMaterialLayerSetUsage", ForLayerSet |-> 2],
       [type |-> "IfcRelAssociatesMaterial", RelatedObjects |-> <<1>>,
        RelatingMaterial |-> 3],
       [type |-> "IfcBeam", GlobalId |-> <<0, 5>>, Name |-> "B2",
        Description |-> None, ObjectPlacement |-> 0],
       [type |-> "IfcMaterialLayer", Material |-> 0],
       [type |-> "IfcMaterialLayerSet", MaterialLayers |-> <<6>>],
       [type |-> "IfcMaterialLayerSetUsage", ForLayerSet |-> 7],
       [type |-> "IfcRelAssociatesMaterial", RelatedObjects |-> <<5>>,
        RelatingMaterial |-> 8] >>

\* a file of another tool with nothing but a point connection
BareGraph ==
    << [type |-> "IfcStructuralPointConnection", GlobalId |-> <<0, 1>>,
        Name |-> None, Description |-> None,
        ObjectPlacement |-> 0, AppliedCondition |-> 0] >>

\* the paths import is called with: the output path of export, and the files
\* of the other tools
Paths == {"out.ifc", "external.ifc", "layers.ifc", "bare.ifc"}

\* the graph ifcopenshell.open decodes at a path: <<>> when there is no file
FileAt(path) ==
    IF path = "out.ifc" THEN disk
    ELSE IF path = "external.ifc" THEN <<ExternalGraph>>
    ELSE IF path = "layers.ifc" THEN <<LayersGraph>>
    ELSE <<BareGraph>>

-----------------------------------------------------------------------------
(* The other components at rest *)

\* no RBACManager query made yet
NoCheck == [fn |-> "none"]

RbacInit == check = NoCheck

\* the module-level stores of collaboration.py, lines 75-77, and no request
\* served yet
NoResponse == [op |-> "none", status |-> 0]

CollabInit ==
    /\ project_members = EmptyDict
    /\ project_invitations = EmptyDict
    /\ activity_logs = EmptyDict
    /\ response = NoResponse
    /\ served = 0

\* RateLimiter.__init__: self.requests = {}
RateInit ==
    /\ requests = EmptyDict
    /\ now = 0
    /\ history = <<>>

-----------------------------------------------------------------------------
(* The state machine *)

Init ==
    /\ ifc_file = NoFile
    /\ project = NoneRef
    /\ site = NoneRef
    /\ building = NoneRef
    /\ disk = <<>>
    /\ nfiles = 0
    /\ calls = 0
    /\ last = NoCall
    /\ prev = NoCall
    /\ RbacInit
    /\ CollabInit
    /\ RateInit

\* IFCEnhancedProcessor(): the calls that follow are made on a new processor
Construct ==
    /\ ifc_file # NoFile \/ building # NoneRef
    /\ ifc_file' = NoFile
    /\ project' = NoneRef
    /\ site' = NoneRef
    /\ building' = NoneRef
    /\ UNCHANGED <<disk, nfiles, calls, last, prev>>
    /\ UNCHANGED <<rbac_vars, collab_vars, rate_vars>>

\* create_new_ifc_project(project_data)
CreateProject(project_data) ==
    /\ calls < MaxCalls
    /\ LET r == CreateNewIfcProject(nfiles + 1, project_data)
       IN  /\ ifc_file' = r.g
           /\ project' = r.project
           /\ site' = r.site
           /\ building' = r.building
           /\ last' = CallRecord("create", project_data, "ok", 0, TRUE,
                                 <<>>, EmptyDict)
    /\ prev' = last
    /\ nfiles' = nfiles + 1
    /\ calls' = calls + 1
    /\ UNCHANGED disk
    /\ UNCHANGED <<rbac_vars, collab_vars, rate_vars>>

\* export_structural_model(structural_data, "out.ifc")
Export(structural_data) ==
    /\ calls < MaxCalls
    /\ LET r == ExportSteps(Self, nfiles + 1, structural_data)
           start == Len(ifc_file.ents)
       IN  /\ ifc_file' = r.ifc_file
           /\ project' = r.project
           /\ site' = r.site
           /\ building' = r.building
           /\ disk' = Write(r, disk)
           /\ last' = CallRecord("export", structural_data,
                                 IF r.raised THEN "raise" ELSE "ok",
                                 start, ifc_file = NoFile,
                                 IF r.raised THEN <<>> ELSE r.ifc_file.ents,
                                 EmptyDict)
    /\ prev' = last
    /\ nfiles' = IF ifc_file = NoFile THEN nfiles + 1 ELSE nfiles
    /\ calls' = calls + 1
    /\ UNCHANGED <<rbac_vars, collab_vars, rate_vars>>

\* export_for_revit / export_for_tekla (structural_data, "out.ifc"): the
\* configuration reads self.ifc_file.by_type, which raises AttributeError
\* when self.ifc_file is None; export_structural_model follows it
ExportFor(op, full_name, structural_data) ==
    /\ calls < MaxCalls
    /\ IF ifc_file = NoFile
       THEN /\ last' = CallRecord(op, structural_data, "raise", 0, TRUE,
                                  <<>>, EmptyDict)
            /\ UNCHANGED <<ifc_file, project, site, building, disk>>
       ELSE LET r == ExportSteps(ConfigureFor(Self, full_name), nfiles + 1,
                                 structural_data)
            IN  /\ ifc_file' = r.ifc_file
                /\ project' = r.project
                /\ site' = r.site
                /\ building' = r.building
                /\ disk' = Write(r, disk)
                /\ last' = CallRecord(op, structural_data,
                                      IF r.raised THEN "raise" ELSE "ok",
                                      Len(ifc_file.ents), FALSE,
                                      IF r.raised THEN <<>> ELSE r.ifc_file.ents,
                                      EmptyDict)
    /\ prev' = last
    /\ calls' = calls + 1
    /\ UNCHANGED nfiles
    /\ UNCHANGED <<rbac_vars, collab_vars, rate_vars>>

ExportForRevit(structural_data) ==
    ExportFor("export_for_revit", "StruMind for Revit", structural_data)

ExportForTekla(structural_data) ==
    ExportFor("export_for_tekla", "StruMind for Tekla", structural_data)

\* import_structural_model(path): ifcopenshell.open raises when there is no
\* file at the path, before self.ifc_file is assigned; an extraction that
\* raises does so after the assignment
Import(path) ==
    /\ calls < MaxCalls
    /\ IF FileAt(path) = <<>>
       THEN /\ last' = CallRecord("import", [path |-> path], "raise", 0, FALSE,
                                  <<>>, EmptyDict)
            /\ UNCHANGED <<ifc_file, nfiles>>
       ELSE /\ ifc_file' = [fid |-> nfiles + 1, ents |-> FileAt(path)[1]]
            /\ nfiles' = nfiles + 1
            /\ last' = IF ExtractionRaises(FileAt(path)[1])
                       THEN CallRecord("import", [path |-> path], "raise", 0,
                                       TRUE, <<>>, EmptyDict)
                       ELSE CallRecord("import", [path |-> path], "ok", 0, TRUE,
                                       <<>>, ImportResult(FileAt(path)[1]))
    /\ prev' = last
    /\ calls' = calls + 1
    /\ UNCHANGED <<project, site, building, disk>>
    /\ UNCHANGED <<rbac_vars, collab_vars, rate_vars>>

Next ==
    \/ Construct
    \/ \E project_data \in ProjectData : CreateProject(project_data)
    \/ \E structural_data \in Bundles : Export(structural_data)
    \/ \E structural_data \in VariantBundles : ExportForRevit(structural_data)
    \/ \E structural_data \in VariantBundles : ExportForTekla(structural_data)
    \/ \E path \in Paths : Import(path)

Spec == Init /\ [][Next]_vars

-----------------------------------------------------------------------------
(* Role-based access control: auth/rbac.py *)

\* class Role
Roles == {"super_admin", "admin", "engineer", "designer", "viewer"}

\* class Permission
Permissions ==
    {"create_user", "read_user", "update_user", "delete_user",
     "create_organization", "read_organization", "update_organization",
     "delete_organization",
     "create_project", "read_project", "update_project", "delete_project",
     "create_model", "read_model", "update_model", "delete_model",
     "run_analysis", "read_analysis",
     "run_design", "read_design",
     "export_data", "import_data",
     "manage_system", "view_logs"}

\* the table with the super-admin entry short of VIEW_LOGS (the entries of
\* the other roles left out)
ROLE_PERMISSIONS_NoViewLogs ==
    [super_admin |->
        <<"create_user", "read_user", "update_user", "delete_user",
          "create_organization", "read_organization", "update_organization",
          "delete_organization",
          "create_project", "read_project", "update_project", "delete_project",
          "create_model", "read_model", "update_model", "delete_model",
          "run_analysis", "read_analysis",
          "run_design", "read_design",
          "export_data", "import_data",
          "manage_system">>,
     viewer |->
        <<"read_user", "read_organization", "read_project", "read_model",
          "read_analysis", "read_design">>]

\* ROLE_PERMISSIONS: role -> list of permissions
ROLE_PERMISSIONS ==
    [super_admin |->
        <<"create_user", "read_user", "update_user", "delete_user",
          "create_organization", "read_organization", "update_organization",
          "delete_organization",
          "create_project", "read_project", "update_project", "delete_project",
          "create_model", "read_model", "update_model", "delete_model",
          "run_analysis", "read_analysis",
          "run_design", "read_design",
          "export_data", "import_data",
          "manage_system", "view_logs">>,
     admin |->
        <<"read_user", "update_user",
          "read_organization", "update_organization",
          "create_project", "read_project", "update_project", "delete_project",
          "create_model", "read_model", "update_model", "delete_model",
          "run_analysis", "read_analysis",
          "run_design", "read_design",
          "export_data", "import_data">>,
     engineer |->
        <<"read_user",
          "read_organization",
          "create_project", "read_project", "update_project",
          "create_model", "read_model", "update_model",
          "run_analysis", "read_analysis",
          "run_design", "read_design",
          "export_data", "import_data">>,
     designer |->
        <<"read_user",
          "read_organization",
          "read_project", "update_project",
          "create_model", "read_model", "update_model",
          "read_analysis",
          "run_design", "read_design",
          "export_data">>,
     viewer |->
        <<"read_user",
          "read_organization",
          "read_project",
          "read_model",
          "read_analysis",
          "read_design">>]

\* RBACManager.get_user_permissions: ROLE_PERMISSIONS.get(user_role, [])
GetUserPermissions(user_role) == Get(ROLE_PERMISSIONS, user_role, <<>>)

\* RBACManager.has_permission: required_permission in user_permissions
HasPermission(user_role, required_permission) ==
    \E k \in 1..Len(GetUserPermissions(user_role)) :
        GetUserPermissions(user_role)[k] = required_permission

\* An id as the database hands it out: a string, or a UUID object whose text
\* is v.  str(id) is the string v in both cases.
StrId(v) == [t |-> "str", v |-> v]
UuidId(v) == [t |-> "uuid", v |-> v]

\* str(x) of an id
Str(id) == id.v

\* RBACManager.can_access_organization
CanAccessOrganization(user, organization_id) ==
    IF user.role = "super_admin" THEN TRUE
    ELSE Str(user.organization_id) = organization_id

\* RBACManager.can_access_project with the owner test ahead of the
\* organization test
CanAccessProject_OwnerFirst(user, proj) ==
    IF user.role = "super_admin" THEN TRUE
    ELSE IF Str(user.id) = Str(proj.created_by_id) THEN TRUE
    ELSE IF Str(user.organization_id) # Str(proj.organization_id) THEN FALSE
    ELSE IF user.role \in {"admin", "engineer"} THEN TRUE
    ELSE FALSE

\* RBACManager.can_access_project
CanAccessProject(user, proj) ==
    IF user.role = "super_admin" THEN TRUE
    ELSE IF Str(user.organization_id) # Str(proj.organization_id) THEN FALSE
    ELSE IF Str(user.id) = Str(proj.created_by_id) THEN TRUE
    ELSE IF user.role \in {"admin", "engineer"} THEN TRUE
    ELSE FALSE

\* the roles has_permission is asked about: the five of Role and a project
\* role that is none of them
AskedRoles == Roles \cup {"owner"}

\* ids of users and of organizations, in both forms
UserIds == {StrId("user-1"), UuidId("user-1"), StrId("user-2")}
OrganizationIds == {StrId("org-a"), UuidId("org-a"), StrId("org-b")}

\* the organization_id strings can_access_organization is asked about
OrganizationNames == {"org-a", "org-b", "other-org-id"}

\* the users and the projects the access queries are made with
RbacUsers ==
    {[id |-> i, role |-> r, organization_id |-> o] :
        i \in UserIds, r \in Roles, o \in OrganizationIds}

RbacProjects ==
    {[id |-> "project-1", organization_id |-> o, created_by_id |-> c] :
        o \in OrganizationIds, c \in UserIds}

\* has_permission(user_role, required_permission)
AskHasPermission(user_role, required_permission) ==
    /\ check' = [fn |-> "has_permission", role |-> user_role,
                 permission |-> required_permission,
                 result |-> HasPermission(user_role, required_permission)]
    /\ UNCHANGED <<ifc_vars, collab_vars, rate_vars>>

\* can_access_organization(user, organization_id)
AskCanAccessOrganization(user, organization_id) ==
    /\ check' = [fn |-> "can_access_organization", user |-> user,
                 organization_id |-> organization_id,
                 result |-> CanAccessOrganization(user, organization_id)]
    /\ UNCHANGED <<ifc_vars, collab_vars, rate_vars>>

\* can_access_project(user, project)
AskCanAccessProject(user, proj) ==
    /\ check' = [fn |-> "can_access_project", user |-> user, project |-> proj,
                 result |-> CanAccessProject(user, proj)]
    /\ UNCHANGED <<ifc_vars, collab_vars, rate_vars>>

NextRbac ==
    \/ \E user_role \in AskedRoles, required_permission \in Permissions :
           AskHasPermission(user_role, required_permission)
    \/ \E user \in RbacUsers, organization_id \in OrganizationNames :
           AskCanAccessOrganization(user, organization_id)
    \/ \E user \in RbacUsers, proj \in RbacProjects :
           AskCanAccessProject(user, proj)

SpecRbac == Init /\ [][NextRbac]_vars

-----------------------------------------------------------------------------
(* Collaboration endpoints: api/v1/collaboration.py *)

\* Bound on the number of collaboration requests in one behaviour.
MaxRequests == 4

\* the users and the projects of the database
DbUsers ==
    {[id |-> "user-1", role |-> "engineer", email |-> "one@example.com"],
     [id |-> "user-2", role |-> "viewer", email |-> "two@example.com"]}

DbUserIds == {u.id : u \in DbUsers}
DbProjectIds == {"project-1"}

\* the ids requests are made with: those of the database and one unknown
AskedUserIds == DbUserIds \cup {"new-user-id"}
AskedProjectIds == DbProjectIds \cup {"other-project-id"}

\* a List[str] of permissions
PermissionList(items) == [items |-> items]

\* the bodies of the requests
MemberCreates == {[role |-> "designer", permissions |-> PermissionList(<<>>)]}
MemberUpdates == {[role |-> "admin", permissions |-> NoneDict],
                  [role |-> None,
                   permissions |-> PermissionList(<<"export_data">>)]}
InvitationCreates == {[email |-> "one@example.com", role |-> "viewer"]}

\* datetime.utcnow().day at an invitation: the 10th, or the 27th of a month
Days == {10, 27}
DaysInMonth == 31

\* project_members.get(project_id, [])
MembersOf(members, project_id) == Get(members, project_id, <<>>)

\* index of the first member of the list with the user id, 0 when none
MemberIndex(list, user_id) ==
    IF \E k \in 1..Len(list) : list[k].user_id = user_id
    THEN CHOOSE k \in 1..Len(list) :
             /\ list[k].user_id = user_id
             /\ \A j \in 1..(k - 1) : list[j].user_id # user_id
    ELSE 0

\* dict[key].append(value), after `if key not in dict: dict[key] = []`
Appended(dict, key, value) ==
    Put(dict, key, Append(Get(dict, key, <<>>), value))

Reply(op, status, detail, args) ==
    [op |-> op, status |-> status, detail |-> detail, args |-> args]

\* add_project_member without the check that the user exists
AddRejection_NoUserCheck(current_user, project_id, member_data) ==
    IF ~HasPermission(current_user.role, "update_project")
    THEN [status |-> 403, detail |-> "Permission denied"]
    ELSE IF project_id \notin DbProjectIds
    THEN [status |-> 404, detail |-> "Project not found"]
    ELSE IF /\ project_id \in DOMAIN project_members
            /\ MemberIndex(project_members[project_id], member_data.user_id) > 0
    THEN [status |-> 400, detail |-> "User is already a project member"]
    ELSE [status |-> 200, detail |-> "ok"]

\* add_project_member, lines 117-138: the HTTPException raised, or 200
AddRejection(current_user, project_id, member_data) ==
    IF ~HasPermission(current_user.role, "update_project")
    THEN [status |-> 403, detail |-> "Permission denied"]
    ELSE IF project_id \notin DbProjectIds
    THEN [status |-> 404, detail |-> "Project not found"]
    ELSE IF member_data.user_id \notin DbUserIds
    THEN [status |-> 404, detail |-> "User not found"]
    ELSE IF /\ project_id \in DOMAIN project_members
            /\ MemberIndex(project_members[project_id], member_data.user_id) > 0
    THEN [status |-> 400, detail |-> "User is already a project member"]
    ELSE [status |-> 200, detail |-> "ok"]

\* add_project_member(project_id, member_data, current_user); added_at and
\* the timestamp and id of the activity are left out of the records
AddProjectMember(current_user, project_id, member_data) ==
    /\ served < MaxRequests
    /\ LET r == AddRejection(current_user, project_id, member_data)
       IN  /\ response' = Reply("add_project_member", r.status, r.detail,
                                [current_user |-> current_user.id,
                                 project_id |-> project_id,
                                 user_id |-> member_data.user_id])
           /\ IF r.status = 200
              THEN /\ project_members' =
                          Appended(project_members, project_id,
                              [user_id |-> member_data.user_id,
                               role |-> member_data.role,
                               permissions |-> member_data.permissions,
                               added_by |-> current_user.id])
                   /\ activity_logs' =
                          Appended(activity_logs, project_id,
                              [project_id |-> project_id,
                               user_id |-> current_user.id,
                               action |-> "MEMBER_ADDED",
                               resource |-> "project_member",
                               details |-> [user_id |-> member_data.user_id,
                                            role |-> member_data.role]])
              ELSE UNCHANGED <<project_members, activity_logs>>
    /\ served' = served + 1
    /\ UNCHANGED <<project_invitations, ifc_vars, rbac_vars, rate_vars>>

\* update_project_member, lines 189-203: the HTTPException raised, or 200
UpdateRejection(current_user, project_id, user_id) ==
    IF ~HasPermission(current_user.role, "update_project")
    THEN [status |-> 403, detail |-> "Permission denied"]
    ELSE IF project_id \notin DOMAIN project_members
    THEN [status |-> 404, detail |-> "Project has no members"]
    ELSE IF MemberIndex(project_members[project_id], user_id) = 0
    THEN [status |-> 404, detail |-> "Member not found"]
    ELSE [status |-> 200, detail |-> "ok"]

\* the member after lines 206-209
UpdatedMember(member, member_update) ==
    [member EXCEPT
        !.role = IF member_update.role \in {None, ""} THEN @
                 ELSE member_update.role,
        !.permissions = IF IsNone(member_update.permissions) THEN @
                        ELSE member_update.permissions]

\* update_project_member(project_id, user_id, member_update, current_user)
UpdateProjectMember(current_user, project_id, user_id, member_update) ==
    /\ served < MaxRequests
    /\ LET r == UpdateRejection(current_user, project_id, user_id)
       IN  /\ response' = Reply("update_project_member", r.status, r.detail,
                                [current_user |-> current_user.id,
                                 project_id |-> project_id,
                                 user_id |-> user_id])
           /\ IF r.status = 200
              THEN project_members' =
                       [project_members EXCEPT
                           ![project_id][MemberIndex(
                               project_members[project_id], user_id)] =
                               UpdatedMember(@, member_update)]
              ELSE UNCHANGED project_members
    /\ served' = served + 1
    /\ UNCHANGED <<project_invitations, activity_logs, ifc_vars, rbac_vars,
                   rate_vars>>

\* the list without its k-th entry: list.pop(k)
Popped(list, k) == SubSeq(list, 1, k - 1) \o SubSeq(list, k + 1, Len(list))

\* remove_project_member(project_id, user_id, current_user): the rejections
\* are those of update_project_member
RemoveProjectMember(current_user, project_id, user_id) ==
    /\ served < MaxRequests
    /\ LET r == UpdateRejection(current_user, project_id, user_id)
       IN  /\ response' = Reply("remove_project_member", r.status, r.detail,
                                [current_user |-> current_user.id,
                                 project_id |-> project_id,
                                 user_id |-> user_id])
           /\ IF r.status = 200
              THEN project_members' =
                       [project_members EXCEPT ![project_id] =
                           Popped(@, MemberIndex(@, user_id))]
              ELSE UNCHANGED project_members
    /\ served' = served + 1
    /\ UNCHANGED <<project_invitations, activity_logs, ifc_vars, rbac_vars,
                   rate_vars>>

\* the invitations of all projects, in the order of project_invitations.items()
\* (one project has invitations in the model)
AllInvitations ==
    IF "project-1" \in DOMAIN project_invitations
    THEN project_invitations["project-1"] ELSE <<>>

\* str(uuid.uuid4()) of the n-th invitation
InvitationId(n) == "invitation-" \o ToString(n)

\* the ids accept_project_invitation is called with
AskedInvitationIds == {InvitationId(1), InvitationId(2), "no-such-invitation"}

\* invite_user_to_project(project_id, invitation_data, current_user) on the
\* given day of the month: datetime.utcnow().replace(day=day + 7) raises
\* ValueError when the month has no such day; the invitation is stored as
\* invitation.dict(), its expires_at a datetime object
InviteUserToProject(current_user, project_id, invitation_data, day) ==
    /\ served < MaxRequests
    /\ LET status == IF ~HasPermission(current_user.role, "update_project")
                     THEN 403
                     ELSE IF project_id \notin DbProjectIds THEN 404
                     ELSE IF day + 7 > DaysInMonth THEN 500
                     ELSE 200
       IN  /\ response' = Reply("invite_user_to_project", status,
                                IF status = 200 THEN "ok" ELSE "rejected",
                                [current_user |-> current_user.id,
                                 project_id |-> project_id])
           /\ IF status = 200
              THEN project_invitations' =
                       Appended(project_invitations, project_id,
                           [id |-> InvitationId(Len(AllInvitations) + 1),
                            project_id |-> project_id,
                            email |-> invitation_data.email,
                            role |-> invitation_data.role,
                            invited_by |-> current_user.id,
                            expires_at |-> [t |-> "datetime", day |-> day + 7],
                            status |-> "pending"])
              ELSE UNCHANGED project_invitations
    /\ served' = served + 1
    /\ UNCHANGED <<project_members, activity_logs, ifc_vars, rbac_vars,
                   rate_vars>>

\* a datetime.fromisoformat that takes a datetime object as it takes its text
FromIsoFormatRaises_Never(value) == FALSE

\* datetime.fromisoformat(value) raises TypeError unless value is a str
FromIsoFormatRaises(value) == value.t # "str"

\* index in AllInvitations of the invitation with the id, 0 when none
InvitationIndex(invitation_id) ==
    IF \E k \in 1..Len(AllInvitations) : AllInvitations[k].id = invitation_id
    THEN CHOOSE k \in 1..Len(AllInvitations) :
             AllInvitations[k].id = invitation_id
    ELSE 0

\* accept_project_invitation(invitation_id, current_user) on the given day
AcceptProjectInvitation(current_user, invitation_id, today) ==
    /\ served < MaxRequests
    /\ LET k == InvitationIndex(invitation_id)
           invitation == AllInvitations[k]
           status ==
               IF k = 0 THEN 404
               ELSE IF invitation.status # "pending" THEN 400
               ELSE IF invitation.email # current_user.email THEN 403
               ELSE IF FromIsoFormatRaises(invitation.expires_at) THEN 500
               ELSE IF invitation.expires_at.day < today THEN 400
               ELSE 200
           expired == /\ k > 0
                      /\ invitation.status = "pending"
                      /\ invitation.email = current_user.email
                      /\ ~FromIsoFormatRaises(invitation.expires_at)
                      /\ invitation.expires_at.day < today
       IN  /\ response' = Reply("accept_project_invitation", status,
                                IF status = 200 THEN "ok" ELSE "rejected",
                                [current_user |-> current_user.id,
                                 invitation_id |-> invitation_id])
           /\ project_members' =
                  IF status = 200
                  THEN Appended(project_members, invitation.project_id,
                           [user_id |-> current_user.id,
                            role |-> invitation.role,
                            permissions |-> PermissionList(<<>>),
                            added_by |-> invitation.invited_by])
                  ELSE project_members
           /\ project_invitations' =
                  IF status = 200
                  THEN [project_invitations EXCEPT
                           ![invitation.project_id][k].status = "accepted"]
                  ELSE IF expired
                  THEN [project_invitations EXCEPT
                           ![invitation.project_id][k].status = "expired"]
                  ELSE project_invitations
    /\ served' = served + 1
    /\ UNCHANGED <<activity_logs, ifc_vars, rbac_vars, rate_vars>>

NextCollab ==
    \/ \E current_user \in DbUsers, project_id \in AskedProjectIds,
          user_id \in AskedUserIds, body \in MemberCreates :
           AddProjectMember(current_user, project_id,
                            [user_id |-> user_id] @@ body)
    \/ \E current_user \in DbUsers, project_id \in AskedProjectIds,
          user_id \in AskedUserIds, member_update \in MemberUpdates :
           UpdateProjectMember(current_user, project_id, user_id, member_update)
    \/ \E current_user \in DbUsers, project_id \in AskedProjectIds,
          user_id \in AskedUserIds :
           RemoveProjectMember(current_user, project_id, user_id)
    \/ \E current_user \in DbUsers, project_id \in AskedProjectIds,
          invitation_data \in InvitationCreates, day \in Days :
           InviteUserToProject(current_user, project_id, invitation_data, day)
    \/ \E current_user \in DbUsers, invitation_id \in AskedInvitationIds,
          today \in Days :
           AcceptProjectInvitation(current_user, invitation_id, today)

SpecCollab == Init /\ [][NextCollab]_vars

-----------------------------------------------------------------------------
(* Rate limiting: RateLimiter of auth/rbac.py *)

\* Bounds on the clock and on the number of is_allowed calls in one behaviour.
MaxTime == 4
MaxAsks == 5

\* the keys of the rate_limit decorator: str(current_user.id) or "anonymous"
RateKeys == {"user-1", "anonymous"}

\* the limit and the window (in ticks of the clock) each key is asked with
RateLimits == [k \in RateKeys |-> IF k = "anonymous" THEN 1 ELSE 2]
RateWindows == [k \in RateKeys |-> IF k = "anonymous" THEN 2 ELSE 3]

\* lines 350-353: the recorded times still inside the window
StillInside(times, current_time, window) ==
    SelectSeq(times, LAMBDA req_time : current_time - req_time < window)

\* is_allowed recording the call whether or not it is allowed
IsAllowed_RecordsDenied(times, current_time, limit, window) ==
    LET kept == StillInside(times, current_time, window)
    IN  [allowed |-> Len(kept) < limit, times |-> Append(kept, current_time)]

\* is_allowed, lines 350-361, on the list of the key: what it returns and the
\* list it leaves
IsAllowed(times, current_time, limit, window) ==
    LET kept == StillInside(times, current_time, window)
    IN  IF Len(kept) >= limit
        THEN [allowed |-> FALSE, times |-> kept]
        ELSE [allowed |-> TRUE, times |-> Append(kept, current_time)]

\* rate_limiter.is_allowed(key, limit, window) at time.time() = now
AskIsAllowed(key) ==
    /\ Len(history) < MaxAsks
    /\ LET r == IsAllowed(Get(requests, key, <<>>), now,
                          RateLimits[key], RateWindows[key])
       IN  /\ requests' = Put(requests, key, r.times)
           /\ history' = Append(history,
                  [key |-> key, time |-> now, allowed |-> r.allowed])
    /\ UNCHANGED <<now, ifc_vars, rbac_vars, collab_vars>>

\* time.time() moves on
Tick ==
    /\ now < MaxTime
    /\ now' = now + 1
    /\ UNCHANGED <<requests, history, ifc_vars, rbac_vars, collab_vars>>

NextRate ==
    \/ \E key \in RateKeys : AskIsAllowed(key)
    \/ Tick

SpecRate == Init /\ [][NextRate]_vars

-----------------------------------------------------------------------------
(* What the claims speak of *)

ExportOk(call) == call.op = "export" /\ call.outcome = "ok"
ImportOk(call) == call.op = "import" /\ call.outcome = "ok"

\* positions of the graph a call handed to the codec that the call itself
\* constructed
Constructed(call) == (call.start + 1)..Len(call.written)

\* positions of the entities of the given types that a call constructed, in
\* order of construction
NewOfTypes(call, types) ==
    SelectSeq(ByTypes(call.written, types, 1), LAMBDA i : i > call.start)

ListOf(data, key) == Get(data, key, <<>>)

IdsOf(list) == {Get(list[k], "id", None) : k \in 1..Len(list)}

\* an export-then-import round trip: the last call imported the file that
\* the call before it wrote
RoundTrip == ImportOk(last) /\ last.data.path = "out.ifc" /\ ExportOk(prev)

\* ---- C1 ----

\* the element names a node id that is not the id of a node of the bundle,
\* or a section id that is not the id of a section of the bundle
DanglingElement(data, element) ==
    \/ \E k \in 1..Len(Get(element, "nodeIds", <<>>)) :
           element.nodeIds[k] \notin IdsOf(ListOf(data, "nodes"))
    \/ /\ "section_id" \in DOMAIN element
       /\ element.section_id \notin IdsOf(ListOf(data, "sections"))

HasDanglingElement(data) ==
    \E k \in 1..Len(ListOf(data, "elements")) :
        DanglingElement(data, data.elements[k])

\* C1: an export whose bundle has an element that references a node id or a
\* section id absent from the bundle raises and writes no graph; it never
\* completes.
C1_DanglingElementRaises ==
    (last.op = "export" /\ HasDanglingElement(last.data))
        => (last.outcome = "raise" /\ last.written = <<>>)

\* ---- C2 ----

\* the references an entity holds; 0 in an optional attribute is no reference
Refs(e) ==
    CASE e.type = "IfcRelAggregates" ->
             {e.RelatingObject} \cup {e.RelatedObjects[k] : k \in 1..Len(e.RelatedObjects)}
      [] e.type = "IfcStructuralPointConnection" ->
             {e.ObjectPlacement, e.AppliedCondition} \ {0}
      [] e.type = "IfcLocalPlacement" ->
             {e.RelativePlacement} \cup ({e.PlacementRelTo} \ {0})
      [] e.type = "IfcAxis2Placement3D" -> {e.Location}
      [] e.type = "IfcMaterialProperties" ->
             {e.Material} \cup {e.Properties[k] : k \in 1..Len(e.Properties)}
      [] e.type = "IfcGeometricRepresentationContext" -> {e.ParentContext} \ {0}
      [] OTHER -> {}

\* C2: in the graph an export hands to the codec, every reference held by an
\* entity the call constructed (aggregations, node placement, node
\* condition) points to an entity constructed in that same call, whatever
\* import or export call was made on the processor before. (An export that
\* follows an explicit create_new_ifc_project is left out: its storeys are
\* aggregated under the building that call constructed.)
C2_ReferencesResolveInCall ==
    (ExportOk(last) /\ prev.op # "create") =>
        \A i \in Constructed(last) : Refs(last.written[i]) \subseteq Constructed(last)

\* ---- C3 ----

BoundaryConditionsOf(node_data) == Get(node_data, "boundary_conditions", EmptyDict)

AnyFixed(bc) == \E k \in 1..6 : Get(bc, DOFs[k], None) = "fixed"

\* the condition entity has its six flags true exactly for the fixed DOFs
FlagsMatch(cond, bc) ==
    \A k \in 1..6 : cond[Stiffness[k]] = (Get(bc, DOFs[k], None) = "fixed")

\* the point connection the call constructed for the k-th node of its bundle
NodeEntityOf(call, k) ==
    call.written[NewOfTypes(call, {"IfcStructuralPointConnection"})[k]]

\* C3 as stated: an exported node has a condition sub-entity if and only if
\* at least one of its six DOFs is fixed, and then the six flags are true
\* exactly for the fixed DOFs.
C3_ConditionIffAnyFixed ==
    ExportOk(last) =>
        \A k \in 1..Len(ListOf(last.data, "nodes")) :
            LET pc == NodeEntityOf(last, k)
                bc == BoundaryConditionsOf(last.data.nodes[k])
            IN  /\ (pc.AppliedCondition # 0) <=> AnyFixed(bc)
                /\ pc.AppliedCondition # 0
                       => FlagsMatch(last.written[pc.AppliedCondition], bc)

\* C3 amended: an exported node has a condition sub-entity if and only if
\* its boundary_conditions record is present and not empty, whether or not
\* any DOF is fixed; the six flags of the sub-entity are true exactly for
\* the fixed DOFs (all false for a node whose six DOFs are free).
C3_ConditionIffRecordNotEmpty ==
    ExportOk(last) =>
        \A k \in 1..Len(ListOf(last.data, "nodes")) :
            LET pc == NodeEntityOf(last, k)
                bc == BoundaryConditionsOf(last.data.nodes[k])
            IN  /\ (pc.AppliedCondition # 0) <=> (DOMAIN bc # {})
                /\ pc.AppliedCondition # 0
                       => /\ last.written[pc.AppliedCondition].type
                                 = "IfcBoundaryNodeCondition"
                          /\ FlagsMatch(last.written[pc.AppliedCondition], bc)

\* an export has written a node whose six DOFs are free with a condition
\* whose flags are all false, and a node with fixed DOFs with its condition
C3_Witness ==
    /\ ExportOk(last)
    /\ \E k \in 1..Len(ListOf(last.data, "nodes")) :
           /\ BoundaryConditionsOf(last.data.nodes[k]) = AllFree
           /\ NodeEntityOf(last, k).AppliedCondition # 0
           /\ \A j \in 1..6 :
                  ~last.written[NodeEntityOf(last, k).AppliedCondition][Stiffness[j]]
    /\ \E k \in 1..Len(ListOf(last.data, "nodes")) :
           /\ AnyFixed(BoundaryConditionsOf(last.data.nodes[k]))
           /\ NodeEntityOf(last, k).AppliedCondition # 0

\* ---- C4 ----

\* an entity without its GlobalId, which is drawn anew for every entity
StripId(e) == [k \in DOMAIN e \ {"GlobalId"} |-> e[k]]

\* number of entities of a graph that have the given type
CountOfType(ents, t) == Cardinality(IndicesOfType(ents, t))

TypesOf(ents) == {ents[i].type : i \in 1..Len(ents)}

StoreysOf(data) ==
    SelectSeq(ListOf(data, "spatial_structure"),
              LAMBDA s : Get(s, "type", None) = "storey")

\* entity a is aggregated under entity b
AggregatedUnder(ents, a, b) ==
    \E r \in IndicesOfType(ents, "IfcRelAggregates") :
        /\ ents[r].RelatingObject = b
        /\ \E k \in 1..Len(ents[r].RelatedObjects) : ents[r].RelatedObjects[k] = a

\* C5: after one export on a new processor, or after a second export of the
\* same bundle on that processor, the graph holds exactly one storey entity
\* per storey of the bundle, in order, each with that storey's elevation and
\* aggregated under the building.
C5_OneStoreyPerId ==
    (/\ ExportOk(last)
     /\ \/ last.fresh
        \/ ExportOk(prev) /\ prev.fresh /\ ~last.fresh /\ prev.data = last.data) =>
        LET storeys == ByTypes(last.written, {"IfcBuildingStorey"}, 1)
            buildings == ByTypes(last.written, {"IfcBuilding"}, 1)
            data == StoreysOf(last.data)
        IN  /\ Len(storeys) = Len(data)
            /\ Len(buildings) = 1
            /\ \A k \in 1..Len(storeys) :
                   k <= Len(data) =>
                       /\ last.written[storeys[k]].Elevation
                              = Get(data[k], "elevation", 0)
                       /\ AggregatedUnder(last.written, storeys[k], buildings[1])

\* ---- C6 ----

\* C6: after create_new_ifc_project the three fields are set and the graph
\* holds exactly one project entity, exactly one site aggregated under it and
\* exactly one building aggregated under that site.
C6_OneProjectSiteBuilding ==
    (last.op = "create" /\ ifc_file # NoFile) =>
        LET ents == ifc_file.ents
            projects == ByTypes(ents, {"IfcProject"}, 1)
            sites == ByTypes(ents, {"IfcSite"}, 1)
            buildings == ByTypes(ents, {"IfcBuilding"}, 1)
        IN  /\ project # NoneRef /\ site # NoneRef /\ building # NoneRef
            /\ Len(projects) = 1 /\ Len(sites) = 1 /\ Len(buildings) = 1
            /\ AggregatedUnder(ents, sites[1], projects[1])
            /\ AggregatedUnder(ents, buildings[1], sites[1])

\* ---- C7 ----

\* the nodes the last import returned, and how many of them stand before
\* the nodes of the bundle the call before it exported
ImportedNodes == last.result.nodes
NodeOffset == Len(ImportedNodes) - Len(ListOf(prev.data, "nodes"))

\* C7: importing the graph an export wrote returns, for every node of the
\* exported bundle and in the bundle's order, one node made from that node's
\* entity whose coordinates are the original's (the origin for a node given
\* without coordinates); when the export began a new graph these are all
\* the nodes returned.
C7_NodeCoordinatesRoundTrip ==
    RoundTrip =>
        /\ NodeOffset >= 0
        /\ prev.fresh => NodeOffset = 0
        /\ \A k \in 1..Len(ListOf(prev.data, "nodes")) :
               /\ ImportedNodes[NodeOffset + k].id = NodeEntityOf(prev, k).GlobalId
               /\ ImportedNodes[NodeOffset + k].coordinates
                      = Get(prev.data.nodes[k], "coordinates", <<0, 0, 0>>)

\* a round trip has returned a node off the ground plane with its
\* coordinates
C7_Witness ==
    /\ RoundTrip
    /\ \E k \in 1..Len(ListOf(prev.data, "nodes")) :
           /\ "coordinates" \in DOMAIN prev.data.nodes[k]
           /\ prev.data.nodes[k].coordinates = <<4, 0, 3>>
           /\ ImportedNodes[NodeOffset + k].coordinates = <<4, 0, 3>>

\* ---- C8 ----

\* every element of the bundle references exactly two nodes of the bundle
TwoNodeElements(data) ==
    /\ ListOf(data, "elements") # <<>>
    /\ \A k \in 1..Len(ListOf(data, "elements")) :
           /\ Len(Get(data.elements[k], "nodeIds", <<>>)) = 2
           /\ \A j \in 1..2 :
                  data.elements[k].nodeIds[j] \in IdsOf(ListOf(data, "nodes"))

\* the id import gives the node that the bundle of the call names node_id
ImportedNodeId(call, node_id) ==
    LET k == CHOOSE k \in 1..Len(call.data.nodes) :
                 Get(call.data.nodes[k], "id", None) = node_id
    IN  NodeEntityOf(call, k).GlobalId

\* the entity the call constructed for the k-th element of its bundle
ElementEntityOf(call, k) ==
    call.written[NewOfTypes(call, {"IfcBeam", "IfcColumn", "IfcStructuralMember"})[k]]

\* C8: importing the graph an export wrote returns, for every element of a
\* bundle whose elements each reference two nodes of the bundle, an element
\* record holding the same ordered pair of node references, under the
\* mapping from the bundle's node ids to the imported node ids.
C8_ElementConnectivityRoundTrip ==
    (RoundTrip /\ TwoNodeElements(prev.data)) =>
        \A k \in 1..Len(prev.data.elements) :
            \E j \in 1..Len(last.result.elements) :
                /\ last.result.elements[j].id = ElementEntityOf(prev, k).GlobalId
                /\ Get(last.result.elements[j], "nodeIds", <<>>)
                       = << ImportedNodeId(prev, prev.data.elements[k].nodeIds[1]),
                            ImportedNodeId(prev, prev.data.elements[k].nodeIds[2]) >>

\* ---- C9 ----

\* the section's profile kind is neither rectangle nor I-shape
UnknownKind(section_data) ==
    Get(section_data, "type", RectangleProfileDef)
        \notin {RectangleProfileDef, IShapeProfileDef}

\* the profile entity the call constructed for the k-th section of its bundle
SectionEntityOf(call, k) ==
    call.written[NewOfTypes(call, {RectangleProfileDef, IShapeProfileDef})[k]]

\* C9: an export that completes has made, for every section whose kind is
\* neither rectangle nor I-shape, a rectangle profile entity of width 300
\* and height 600 whatever the section's own parameters; and an export
\* raises only if its bundle has a rectangle or I-shape section whose
\* properties are None or a point load whose values are None, never because
\* of a section of another kind.
C9_UnknownKindFallback ==
    /\ ExportOk(last) =>
           \A k \in 1..Len(ListOf(last.data, "sections")) :
               UnknownKind(last.data.sections[k]) =>
                   /\ SectionEntityOf(last, k).type = RectangleProfileDef
                   /\ SectionEntityOf(last, k).XDim = 300
                   /\ SectionEntityOf(last, k).YDim = 600
    /\ (last.op = "export" /\ last.outcome = "raise") =>
           \/ \E k \in 1..Len(ListOf(last.data, "sections")) :
                  /\ ~UnknownKind(last.data.sections[k])
                  /\ IsNone(Get(last.data.sections[k], "properties", EmptyDict))
           \/ \E k \in 1..Len(ListOf(last.data, "loads")) :
                  /\ Get(last.data.loads[k], "type", SingleForce) = SingleForce
                  /\ IsNone(Get(last.data.loads[k], "values", EmptyDict))

\* an export has completed with a circle section of diameter 100 made a
\* 300 by 600 rectangle, and with a section of kind "T" whose properties are
\* None
C9_Witness ==
    /\ ExportOk(last)
    /\ \E k \in 1..Len(ListOf(last.data, "sections")) :
           /\ Get(last.data.sections[k], "type", None) = "IfcCircleProfileDef"
           /\ last.data.sections[k].properties.x_dim = 100
           /\ SectionEntityOf(last, k).XDim = 300
           /\ SectionEntityOf(last, k).YDim = 600
    /\ \E k \in 1..Len(ListOf(last.data, "sections")) :
           /\ Get(last.data.sections[k], "type", None) = "T"
           /\ IsNone(last.data.sections[k].properties)
           /\ SectionEntityOf(last, k).type = RectangleProfileDef

\* ---- C10 ----

\* the graph the last import read
ImportedGraph == ifc_file.ents

\* the type is one of those _extract_profile_data reads dimensions of
Recognized(t) ==
    t \in {RectangleProfileDef, "IfcRectangleHollowProfileDef", IShapeProfileDef}

\* positions of the profile entities of a graph, of whatever profile type
ProfilePositions(ents) ==
    {i \in 1..Len(ents) :
        ents[i].type \in {"IfcProfileDef", RectangleProfileDef, IShapeProfileDef,
                          "IfcCircleProfileDef", "IfcRectangleHollowProfileDef"}}

\* C10 as stated: the section list an import returns holds a record for a
\* profile entity only if the profile is a rectangle or an I-shape.
C10_UnrecognizedProfilesSkipped ==
    ImportOk(last) =>
        \A k \in 1..Len(last.result.sections) :
            Recognized(last.result.sections[k].type)

\* C10 amended: the section list an import returns holds exactly one record
\* per profile entity of the graph, of whatever type, in the graph's order,
\* with the entity's id, name and type; the record of a profile that is
\* neither a rectangle nor an I-shape has only type and name in its
\* properties.
C10_EveryProfileHasRecord ==
    (ImportOk(last) /\ ifc_file # NoFile) =>
        /\ {last.result.sections[k].id : k \in 1..Len(last.result.sections)}
               = ProfilePositions(ImportedGraph)
        /\ \A k \in 1..Len(last.result.sections) :
               LET rec == last.result.sections[k]
               IN  /\ k > 1 => last.result.sections[k - 1].id < rec.id
                   /\ rec.id \in ProfilePositions(ImportedGraph) =>
                          /\ rec.type = ImportedGraph[rec.id].type
                          /\ rec.name = ImportedGraph[rec.id].ProfileName
                          /\ ~Recognized(rec.type) =>
                                 DOMAIN rec.properties = {"type", "name"}

\* an import has returned a record for a circle profile, with only type and
\* name in its properties
C10_Witness ==
    /\ ImportOk(last)
    /\ ifc_file # NoFile
    /\ \E k \in 1..Len(last.result.sections) :
           /\ last.result.sections[k].type = "IfcCircleProfileDef"
           /\ ImportedGraph[last.result.sections[k].id].type = "IfcCircleProfileDef"
           /\ DOMAIN last.result.sections[k].properties = {"type", "name"}

\* ---- C11 ----

\* the attribute of a point load, and of a linear load, behind each key of the
\* value map
PointLoadFields ==
    [force_x |-> "ForceX", force_y |-> "ForceY", force_z |-> "ForceZ",
     moment_x |-> "MomentX", moment_y |-> "MomentY", moment_z |-> "MomentZ"]

LinearLoadFields ==
    [linear_force_x |-> "LinearForceX", linear_force_y |-> "LinearForceY",
     linear_force_z |-> "LinearForceZ", linear_moment_x |-> "LinearMomentX",
     linear_moment_y |-> "LinearMomentY", linear_moment_z |-> "LinearMomentZ"]

\* positions of the load entities of a graph, of whatever load type
LoadPositions(ents) ==
    {i \in 1..Len(ents) :
        ents[i].type \in {"IfcStructuralLoad", SingleForce, LinearForce,
                          "IfcStructuralLoadTemperature"}}

\* the value map has exactly the keys of fields, each the entity's attribute,
\* or 0 when the entity has no such attribute
ValuesFrom(values, entity, fields) ==
    /\ DOMAIN values = DOMAIN fields
    /\ \A key \in DOMAIN fields :
           values[key] = IF fields[key] \in DOMAIN entity
                         THEN entity[fields[key]] ELSE 0

\* C11: an import returns one load record per load entity; the record of a
\* load that is neither a point load nor a linear load has an empty value
\* map; the record of a point load, and of a linear load, has exactly its six
\* components, each 0 when the entity has no such attribute.
C11_LoadValues ==
    (ImportOk(last) /\ ifc_file # NoFile) =>
        /\ {last.result.loads[k].id : k \in 1..Len(last.result.loads)}
               = LoadPositions(ImportedGraph)
        /\ Len(last.result.loads) = Cardinality(LoadPositions(ImportedGraph))
        /\ \A k \in 1..Len(last.result.loads) :
               LET rec == last.result.loads[k]
               IN  rec.id \in LoadPositions(ImportedGraph) =>
                       /\ rec.type = ImportedGraph[rec.id].type
                       /\ rec.type = SingleForce =>
                              ValuesFrom(rec.values, ImportedGraph[rec.id],
                                         PointLoadFields)
                       /\ rec.type = LinearForce =>
                              ValuesFrom(rec.values, ImportedGraph[rec.id],
                                         LinearLoadFields)
                       /\ rec.type \notin {SingleForce, LinearForce} =>
                              rec.values = EmptyDict

\* an import has returned a temperature load with an empty value map and a
\* point load whose entity has no ForceX, with force_x 0 and force_z -10
C11_Witness ==
    /\ ImportOk(last)
    /\ ifc_file # NoFile
    /\ \E k \in 1..Len(last.result.loads) :
           /\ last.result.loads[k].type = "IfcStructuralLoadTemperature"
           /\ last.result.loads[k].values = EmptyDict
    /\ \E k \in 1..Len(last.result.loads) :
           /\ last.result.loads[k].type = SingleForce
           /\ "ForceX" \notin DOMAIN ImportedGraph[last.result.loads[k].id]
           /\ last.result.loads[k].values.force_x = 0
           /\ last.result.loads[k].values.force_z = -10

\* ---- C12 ----

\* the load records of a bundle whose kind, a point load when none is given,
\* is the point load
PointLoads(data) ==
    SelectSeq(ListOf(data, "loads"),
              LAMBDA load_data : Get(load_data, "type", SingleForce) = SingleForce)

\* positions of the load entities a call constructed, of whatever load type
NewLoads(call) ==
    NewOfTypes(call, {"IfcStructuralLoad", SingleForce, LinearForce,
                      "IfcStructuralLoadTemperature"})

\* C12: an export that completes has made exactly one load entity per load
\* record whose kind is the point load, in the bundle's order, and none for a
\* record of another kind; and an export raises only because of a section or
\* of a point load whose values are None, never because of a load of another
\* kind.
C12_LoadEntityIffPointKind ==
    /\ ExportOk(last) =>
           /\ Len(NewLoads(last)) = Len(PointLoads(last.data))
           /\ \A k \in 1..Len(NewLoads(last)) :
                  /\ last.written[NewLoads(last)[k]].type = SingleForce
                  /\ k <= Len(PointLoads(last.data)) =>
                         last.written[NewLoads(last)[k]].Name
                             = Get(PointLoads(last.data)[k], "name", "Load")
    /\ (last.op = "export" /\ last.outcome = "raise") =>
           \/ \E k \in 1..Len(ListOf(last.data, "sections")) :
                  SectionRaises(last.data.sections[k])
           \/ \E k \in 1..Len(ListOf(last.data, "loads")) :
                  LoadRaises(last.data.loads[k])

\* an export has completed on a bundle with a linear load and a temperature
\* load whose values are None, with load entities for its two point loads only
C12_Witness ==
    /\ ExportOk(last)
    /\ \E k \in 1..Len(ListOf(last.data, "loads")) :
           Get(last.data.loads[k], "type", SingleForce) = LinearForce
    /\ \E k \in 1..Len(ListOf(last.data, "loads")) :
           /\ Get(last.data.loads[k], "type", SingleForce)
                  = "IfcStructuralLoadTemperature"
           /\ IsNone(last.data.loads[k].values)
    /\ Len(PointLoads(last.data)) = 2
    /\ Len(NewLoads(last)) = 2

\* ---- C13 ----

\* the graph without the name and version of its IfcApplication entities
WithoutApplication(ents) ==
    [i \in 1..Len(ents) |->
        IF ents[i].type = "IfcApplication" THEN [type |-> "IfcApplication"]
        ELSE ents[i]]

\* C13: a call of export_for_revit or export_for_tekla on a processor on
\* which export_structural_model with the same bundle would complete, a
\* freshly constructed processor included, completes and writes the graph
\* that export would write, apart from the application's name and version.
C13_VariantsExportSameGraph ==
    [][(/\ calls' = calls + 1
        /\ last'.op \in {"export_for_revit", "export_for_tekla"}
        /\ ~ExportSteps(Self, nfiles + 1, last'.data).raised)
       => /\ last'.outcome = "ok"
          /\ WithoutApplication(last'.written)
                 = WithoutApplication(
                       ExportSteps(Self, nfiles + 1, last'.data).ifc_file.ents)
          /\ disk' = <<last'.written>>]_vars

\* ---- C14 ----

\* C14: the graph an export writes holds no entity left over from the import
\* or export that preceded it on the processor: every entity of it was
\* constructed by the call.
C14_ExportGraphFresh ==
    (ExportOk(last) /\ (ImportOk(prev) \/ prev.op = "export")) =>
        Constructed(last) = 1..Len(last.written)

\* ---- C15 ----

\* the graph has no entity of the type
NoneOfType(ents, type) == ByType(ents, type) = <<>>

\* C15 as stated: when the imported graph has no project, the metadata
\* record of the import has no keys, whatever else the graph holds.
C15_NoProjectEmptyRecord ==
    (ImportOk(last) /\ ifc_file # NoFile
        /\ NoneOfType(ImportedGraph, "IfcProject")) =>
        DOMAIN last.result.building_info = {}

\* C15 amended: when the imported graph has no project, the import completes
\* and its metadata record has no project key; it has no keys exactly when
\* the graph has no building either; with a building it has the name and
\* description of the first building, and an address exactly when that
\* building has one.
C15_NoProjectNoProjectKeys ==
    (ImportOk(last) /\ ifc_file # NoFile
        /\ NoneOfType(ImportedGraph, "IfcProject")) =>
        LET info == last.result.building_info
            buildings == ByType(ImportedGraph, "IfcBuilding")
        IN  /\ DOMAIN info \cap {"project_name", "project_description"} = {}
            /\ DOMAIN info = {} <=> buildings = <<>>
            /\ buildings # <<>> =>
                   /\ {"building_name", "building_description"}
                          \subseteq DOMAIN info
                   /\ info.building_name = ImportedGraph[buildings[1]].Name
                   /\ info.building_description
                          = ImportedGraph[buildings[1]].Description
                   /\ "address" \in DOMAIN info
                          <=> Get(ImportedGraph[buildings[1]],
                                  "BuildingAddress", 0) >= 1

\* an import of a graph with a building and no project has returned the
\* building's name and address
C15_Witness ==
    /\ ImportOk(last)
    /\ ifc_file # NoFile
    /\ NoneOfType(ImportedGraph, "IfcProject")
    /\ ~NoneOfType(ImportedGraph, "IfcBuilding")
    /\ "project_name" \notin DOMAIN last.result.building_info
    /\ last.result.building_info.building_name = "Annex"
    /\ last.result.building_info.address.city = "Springfield"

\* ---- C16 ----

\* positions of the point connections of a graph
ConnectionPositions(ents) ==
    {i \in 1..Len(ents) : ents[i].type = "IfcStructuralPointConnection"}

\* the point connection of the imported graph a node record was read from
ConnectionOf(node) ==
    CHOOSE i \in ConnectionPositions(ImportedGraph) :
        ImportedGraph[i].GlobalId = node.id

\* the stiffness flag of degree k is set in the condition applied to the
\* connection
FlagSet(connection, k) ==
    /\ Get(connection, "AppliedCondition", 0) >= 1
    /\ Get(ImportedGraph[connection.AppliedCondition], Stiffness[k], FALSE)

\* C16: an import returns exactly one node per point connection of the graph;
\* the node's boundary-condition record has exactly the six degree-of-freedom
\* keys, all 'free' when the connection has no condition, and a degree is
\* 'fixed' exactly when its stiffness flag is set in the condition.
C16_NodeBoundaryConditions ==
    (ImportOk(last) /\ ifc_file # NoFile) =>
        /\ Len(last.result.nodes) = Cardinality(ConnectionPositions(ImportedGraph))
        /\ {last.result.nodes[n].id : n \in 1..Len(last.result.nodes)}
               = {ImportedGraph[i].GlobalId : i \in ConnectionPositions(ImportedGraph)}
        /\ \A n \in 1..Len(last.result.nodes) :
               LET node == last.result.nodes[n]
               IN  /\ DOMAIN node.boundary_conditions = {DOFs[k] : k \in 1..6}
                   /\ \A k \in 1..6 :
                          /\ node.boundary_conditions[DOFs[k]] \in {"fixed", "free"}
                          /\ node.boundary_conditions[DOFs[k]] = "fixed"
                                 <=> FlagSet(ImportedGraph[ConnectionOf(node)], k)

\* an import has returned a node whose connection has no condition, all six
\* degrees free, and a node whose condition has the X and Z translation flags
\* set and no other, with those two degrees fixed and the other four free
C16_Witness ==
    /\ ImportOk(last)
    /\ ifc_file # NoFile
    /\ \E n \in 1..Len(last.result.nodes) :
           /\ ImportedGraph[ConnectionOf(last.result.nodes[n])].AppliedCondition = 0
           /\ last.result.nodes[n].boundary_conditions = AllFree
    /\ \E n \in 1..Len(last.result.nodes) :
           /\ ImportedGraph[ConnectionOf(last.result.nodes[n])].AppliedCondition >= 1
           /\ last.result.nodes[n].boundary_conditions.translation_x = "fixed"
           /\ last.result.nodes[n].boundary_conditions.translation_y = "free"
           /\ last.result.nodes[n].boundary_conditions.translation_z = "fixed"
           /\ last.result.nodes[n].boundary_conditions.rotation_z = "free"

\* ---- C17 ----

\* C17: an import that has opened its file completes, whatever optional
\* sub-structure the graph lacks: a placement, a material association, a
\* property set, a boundary condition, a description, a name, the layers of a
\* layered material, the material of a layer.
C17_ImportNeverAborts ==
    (last.op = "import" /\ last.fresh) => last.outcome = "ok"

\* ---- C18 ----

\* C18: the bundle an import returns has exactly the keys project_info,
\* spatial_nodes, nodes, elements, materials, sections, loads and load_cases.
C18_ImportBundleKeys ==
    ImportOk(last) =>
        DOMAIN last.result = {"project_info", "spatial_nodes", "nodes",
                              "elements", "materials", "sections", "loads",
                              "load_cases"}

\* ---- C19 ----

ExportOps == {"export", "export_for_revit", "export_for_tekla"}

\* the step of export that constructs the entities of a type (0: none of the
\* seven, or a type more than one step constructs)
StepOfType(type) ==
    CASE type = "IfcBuildingStorey" -> 1
      [] type = "IfcMaterial" -> 2
      [] type \in {RectangleProfileDef, IShapeProfileDef} -> 3
      [] type = "IfcStructuralPointConnection" -> 4
      [] type \in {"IfcBeam", "IfcColumn", "IfcStructuralMember"} -> 5
      [] type = SingleForce -> 6
      [] type = "IfcStructuralLoadCase" -> 7
      [] OTHER -> 0

\* the number of entities each of the seven steps has to construct for a
\* bundle
StepCounts(data) ==
    << Len(SelectSeq(ListOf(data, "spatial_structure"),
                     LAMBDA node : Get(node, "type", None) = "storey")),
       Len(ListOf(data, "materials")),
       Len(ListOf(data, "sections")),
       Len(ListOf(data, "nodes")),
       Len(ListOf(data, "elements")),
       Len(PointLoads(data)),
       Len(ListOf(data, "load_cases")) >>

\* the call constructed, step after step in the order of the seven steps,
\* the entities of its bundle
AllStepsInOrder(call) ==
    /\ \A step \in 1..7 :
           Cardinality({i \in Constructed(call) :
                           StepOfType(call.written[i].type) = step})
               = StepCounts(call.data)[step]
    /\ \A i, j \in Constructed(call) :
           (/\ i < j
            /\ StepOfType(call.written[i].type) > 0
            /\ StepOfType(call.written[j].type) > 0)
           => StepOfType(call.written[i].type) <= StepOfType(call.written[j].type)

\* C19: an export call that raises leaves the file at the output path as it
\* was; an export call that completes has written the graph of the processor
\* after the storey, material, section, node, element, load and load-case
\* steps constructed, in that order, all the entities of the bundle.
C19_NoPartialCommit ==
    [][(calls' = calls + 1 /\ last'.op \in ExportOps) =>
          /\ last'.outcome \in {"ok", "raise"}
          /\ last'.outcome = "raise" => disk' = disk
          /\ last'.outcome = "ok" =>
                 /\ disk' = <<ifc_file'.ents>>
                 /\ last'.written = ifc_file'.ents
                 /\ AllStepsInOrder(last')]_vars

\* an export has raised after an export that completed: the processor's graph
\* has grown and the file still holds the graph of the earlier call
C19_Witness ==
    /\ last.op = "export"
    /\ last.outcome = "raise"
    /\ ExportOk(prev)
    /\ disk = <<prev.written>>
    /\ ifc_file # NoFile
    /\ Len(ifc_file.ents) > Len(prev.written)

\* ---- C20 ----

\* the point v of the frame of the placement p, carried through the local
\* transform of p and then of each placement p is relative to, up to the root
RECURSIVE GlobalPoint(_, _, _)
GlobalPoint(ents, p, v) ==
    LET local == AxisPlacement(ents, ents[p].RelativePlacement)
        w == [k \in 1..3 |-> MatVec(local.rot, v)[k] + local.trans[k]]
    IN  IF ents[p].PlacementRelTo >= 1
        THEN GlobalPoint(ents, ents[p].PlacementRelTo, w)
        ELSE w

\* no placement of the chain of p has an axis or a reference direction
RECURSIVE TranslationOnly(_, _)
TranslationOnly(ents, p) ==
    /\ DOMAIN ents[ents[p].RelativePlacement] \cap {"Axis", "RefDirection"} = {}
    /\ ents[p].PlacementRelTo >= 1 => TranslationOnly(ents, ents[p].PlacementRelTo)

\* the sum of the offsets of the placements of the chain of p
RECURSIVE SumOfOffsets(_, _)
SumOfOffsets(ents, p) ==
    LET loc == ents[ents[p].RelativePlacement].Location
        own == IF loc >= 1 THEN Coords3(ents[loc].Coordinates) ELSE <<0, 0, 0>>
        rest == IF ents[p].PlacementRelTo >= 1
                THEN SumOfOffsets(ents, ents[p].PlacementRelTo)
                ELSE <<0, 0, 0>>
    IN  [k \in 1..3 |-> own[k] + rest[k]]

\* the global position is that of the chain of the placement p
PositionOfChain(position, ents, p) ==
    /\ position = GlobalPoint(ents, p, <<0, 0, 0>>)
    /\ TranslationOnly(ents, p) => position = SumOfOffsets(ents, p)

\* the entity of the imported graph an element record was read from
EntityOf(element) ==
    CHOOSE i \in 1..Len(ImportedGraph) :
        /\ "GlobalId" \in DOMAIN ImportedGraph[i]
        /\ ImportedGraph[i].GlobalId = element.id

\* C20: the position an import returns for a node, and for an element, that
\* has a placement is the origin carried through the local transforms of the
\* placement and of its parents up to the root; for a chain of translations
\* only it is the sum of the offsets.
C20_GlobalPlacement ==
    (ImportOk(last) /\ ifc_file # NoFile) =>
        /\ \A n \in 1..Len(last.result.nodes) :
               LET c == ImportedGraph[ConnectionOf(last.result.nodes[n])]
               IN  Get(c, "ObjectPlacement", 0) >= 1 =>
                       PositionOfChain(last.result.nodes[n].coordinates,
                                       ImportedGraph, c.ObjectPlacement)
        /\ \A n \in 1..Len(last.result.elements) :
               LET e == ImportedGraph[EntityOf(last.result.elements[n])]
               IN  Get(e, "ObjectPlacement", 0) >= 1 =>
                       /\ ~IsNone(last.result.elements[n].geometry.placement)
                       /\ PositionOfChain(
                              last.result.elements[n].geometry.placement.location,
                              ImportedGraph, e.ObjectPlacement)

\* an import has returned, for a column placed through a chain of three
\* translations of 0, 3000 and 3500 along z (3 m and 3.5 m in millimetres),
\* the position z = 6500, and for a beam placed at (2, 0, 1) in a frame at
\* z = 3 turned a quarter turn about z, the position (0, 2, 4)
C20_Witness ==
    /\ ImportOk(last)
    /\ ifc_file # NoFile
    /\ \E n \in 1..Len(last.result.elements) :
           LET e == ImportedGraph[EntityOf(last.result.elements[n])]
           IN  /\ Get(e, "ObjectPlacement", 0) >= 1
               /\ TranslationOnly(ImportedGraph, e.ObjectPlacement)
               /\ ImportedGraph[e.ObjectPlacement].PlacementRelTo >= 1
               /\ last.result.elements[n].geometry.placement.location
                      = <<0, 0, 6500>>
    /\ \E n \in 1..Len(last.result.elements) :
           LET e == ImportedGraph[EntityOf(last.result.elements[n])]
           IN  /\ Get(e, "ObjectPlacement", 0) >= 1
               /\ ~TranslationOnly(ImportedGraph, e.ObjectPlacement)
               /\ last.result.elements[n].geometry.placement.location
                      = <<0, 2, 4>>

\* ---- C21 ----

\* the READ_* members of Permission
ReadPermissions ==
    {"read_user", "read_organization", "read_project", "read_model",
     "read_analysis", "read_design"}

\* the table entry of a role, as a set
TableEntry(role) ==
    IF role \in DOMAIN ROLE_PERMISSIONS
    THEN {ROLE_PERMISSIONS[role][k] : k \in 1..Len(ROLE_PERMISSIONS[role])}
    ELSE {}

\* C21: has_permission(role, p) answers true exactly when p is in the table
\* entry of the role; for the super-admin it answers true for every member
\* of Permission, and for the viewer only for READ_* permissions.
C21_PermissionTable ==
    check.fn = "has_permission" =>
        /\ check.result <=> check.permission \in TableEntry(check.role)
        /\ check.role = "super_admin" => check.result
        /\ (check.role = "viewer" /\ check.result) =>
               check.permission \in ReadPermissions
        /\ TableEntry("super_admin") = Permissions
        /\ TableEntry("viewer") \subseteq ReadPermissions

\* has_permission has answered true for the super-admin and VIEW_LOGS
C21_Witness ==
    /\ check.fn = "has_permission"
    /\ check.role = "super_admin"
    /\ check.permission = "view_logs"
    /\ check.result

\* ---- C22 ----

\* C22: for a user who is not super-admin, can_access_project answers false
\* for every project of another organization, the user's own creations
\* included, and true for a project the user created in the user's own
\* organization; can_access_organization answers true only for the user's
\* own organization.
C22_OrganizationIsolation ==
    /\ (check.fn = "can_access_project" /\ check.user.role # "super_admin") =>
           /\ check.user.organization_id.v # check.project.organization_id.v
                  => ~check.result
           /\ (/\ check.user.organization_id.v = check.project.organization_id.v
               /\ check.user.id.v = check.project.created_by_id.v)
                  => check.result
    /\ (check.fn = "can_access_organization"
           /\ check.user.role # "super_admin" /\ check.result) =>
           check.organization_id = check.user.organization_id.v

\* can_access_project has answered false to a designer about a project the
\* designer created in another organization
C22_Witness ==
    /\ check.fn = "can_access_project"
    /\ check.user.role = "designer"
    /\ check.user.id.v = check.project.created_by_id.v
    /\ check.user.organization_id.v # check.project.organization_id.v
    /\ ~check.result

\* the requests add_project_member rejects for the named reason
AddAnswered(status, detail) ==
    /\ response.op = "add_project_member"
    /\ response.status = status
    /\ response.detail = detail

\* C23: every add_project_member request that is rejected leaves the member
\* lists and the activity logs as they were, and a request for a user id that
\* is not in the database is rejected: with 404 when the caller may update the
\* project and the project exists, and with 403 or 404 otherwise.
C23_RejectedAddChangesNothing ==
    [][(served' = served + 1 /\ response'.op = "add_project_member") =>
         /\ response'.status # 200 =>
                /\ project_members' = project_members
                /\ activity_logs' = activity_logs
         /\ response'.args.user_id \notin DbUserIds =>
                /\ response'.status \in {403, 404}
                /\ (/\ response'.args.current_user = "user-1"
                    /\ response'.args.project_id \in DbProjectIds)
                       => /\ response'.status = 404
                          /\ response'.detail = "User not found"
         /\ response'.status = 200 =>
                /\ project_members' # project_members
                /\ activity_logs' # activity_logs]_vars

\* C23 witness: a project has a member, and a request to add an unknown user
\* to it has just been answered with 404.
C23_Witness ==
    /\ AddAnswered(404, "User not found")
    /\ response.args.user_id = "new-user-id"
    /\ "project-1" \in DOMAIN project_members
    /\ Len(project_members["project-1"]) >= 1
    /\ "project-1" \in DOMAIN activity_logs

\* the user ids of the list are pairwise distinct
UniqueMembers(list) ==
    \A j, k \in 1..Len(list) : list[j].user_id = list[k].user_id => j = k

ElementPositionOf(record) ==
    CHOOSE i \in 1..Len(ImportedGraph) :
        /\ "GlobalId" \in DOMAIN ImportedGraph[i]
        /\ ImportedGraph[i].GlobalId = record.id

\* the material associations of the element at position i, in file order
MaterialAssociations(i) ==
    RelationsOf(ImportedGraph, i, "IfcRelAssociatesMaterial")

\* the association relates a plain material or a layer-set usage
SupportedForm(r) ==
    ImportedGraph[ImportedGraph[r].RelatingMaterial].type
        \in {"IfcMaterial", "IfcMaterialLayerSetUsage"}

\* the name a material association stands for: that of a plain material, that
\* of the material of the first layer of a layer-set usage, none for any
\* other form
AssociatedName(r) ==
    LET material == ImportedGraph[ImportedGraph[r].RelatingMaterial]
    IN  IF material.type = "IfcMaterial" THEN material.Name
        ELSE IF material.type = "IfcMaterialLayerSetUsage"
        THEN ImportedGraph[ImportedGraph[ImportedGraph[material.ForLayerSet]
                 .MaterialLayers[1]].Material].Name
        ELSE None

\* C24 as stated: the material of every imported element is what its first
\* material association gives, none when that association is of another form
\* than a plain material or a layer-set usage, whatever associations follow.
C24_FirstAssociationOnly ==
    (ImportOk(last) /\ ifc_file # NoFile) =>
        \A k \in 1..Len(last.result.elements) :
            LET record == last.result.elements[k]
                associations == MaterialAssociations(ElementPositionOf(record))
            IN  record.material =
                    IF associations = <<>> THEN None
                    ELSE AssociatedName(associations[1])

\* C24 amended: the material of every imported element is what the first of
\* its material associations that relates a plain material or a layer-set
\* usage gives, associations of other forms being passed over; none when the
\* element has no such association.
C24_FirstSupportedAssociation ==
    (ImportOk(last) /\ ifc_file # NoFile) =>
        \A k \in 1..Len(last.result.elements) :
            LET record == last.result.elements[k]
                supported ==
                    SelectSeq(MaterialAssociations(ElementPositionOf(record)),
                              SupportedForm)
            IN  record.material =
                    IF supported = <<>> THEN None
                    ELSE AssociatedName(supported[1])

\* C24 witness: an import has returned a wall whose first association is a
\* material list and whose second is the plain material reported, and a
\* column whose first association is a layer-set usage, reported by its
\* first layer, and whose second is a plain material.
C24_Witness ==
    /\ ImportOk(last)
    /\ ifc_file # NoFile
    /\ \E k \in 1..Len(last.result.elements) :
           LET record == last.result.elements[k]
               associations == MaterialAssociations(ElementPositionOf(record))
           IN  /\ Len(associations) = 2
               /\ ~SupportedForm(associations[1])
               /\ record.material = "Masonry"
    /\ \E k \in 1..Len(last.result.elements) :
           LET record == last.result.elements[k]
               associations == MaterialAssociations(ElementPositionOf(record))
           IN  /\ Len(associations) = 2
               /\ ImportedGraph[ImportedGraph[associations[1]].RelatingMaterial]
                      .type = "IfcMaterialLayerSetUsage"
               /\ record.material = "Concrete"

\* ---- C25 ----

\* the kinds of spatial entity: site, building, storey and space
SpatialTypes == {"IfcSite", "IfcBuilding", "IfcBuildingStorey", "IfcSpace"}

\* the spatial list the last import returned
SpatialRecords == last.result.spatial_structure

\* the record is made of the entity at position i, the given fields copied
RecordOf(record, i) ==
    /\ record.id = ImportedGraph[i].GlobalId
    /\ record.name = ImportedGraph[i].Name
    /\ record.description = ImportedGraph[i].Description

\* C25 as stated: the spatial list of an import has as many records as the
\* graph has sites, buildings, storeys and spaces; every record has the
\* fields id, name, description, elevation and kind (the key 'type'), the
\* elevation being the storey's for a storey and null for any other kind.
C25_OneRecordPerSpatialEntity ==
    (ImportOk(last) /\ ifc_file # NoFile) =>
        /\ Len(SpatialRecords)
               = Len(ByTypes(ImportedGraph, SpatialTypes, 1))
        /\ \A k \in 1..Len(SpatialRecords) :
               /\ DOMAIN SpatialRecords[k]
                      = {"id", "name", "description", "elevation", "type"}
               /\ SpatialRecords[k].type # "storey"
                      => SpatialRecords[k].elevation = None

\* C25 amended: the spatial list of an import has one record per storey, in
\* file order, and after them one per space; sites and buildings have none.
\* A storey's record has id, name, description, the storey's elevation and
\* type 'storey'; a space's record has id, name, description and type
\* 'space', and no elevation field.
C25_StoreysThenSpaces ==
    (ImportOk(last) /\ ifc_file # NoFile) =>
        LET storeys == ByTypes(ImportedGraph, {"IfcBuildingStorey"}, 1)
            spaces == ByTypes(ImportedGraph, {"IfcSpace"}, 1)
        IN  /\ Len(SpatialRecords) = Len(storeys) + Len(spaces)
            /\ \A k \in 1..Len(storeys) :
                   /\ DOMAIN SpatialRecords[k]
                          = {"id", "name", "description", "elevation", "type"}
                   /\ SpatialRecords[k].type = "storey"
                   /\ RecordOf(SpatialRecords[k], storeys[k])
                   /\ SpatialRecords[k].elevation
                          = ImportedGraph[storeys[k]].Elevation
            /\ \A k \in 1..Len(spaces) :
                   LET record == SpatialRecords[Len(storeys) + k]
                   IN  /\ DOMAIN record = {"id", "name", "description", "type"}
                       /\ record.type = "space"
                       /\ RecordOf(record, spaces[k])

\* C25 witness: an import of a graph with a building, a storey and a space
\* has returned two records, the storey's with its elevation and the
\* space's without one.
C25_Witness ==
    /\ ImportOk(last)
    /\ ifc_file # NoFile
    /\ ~NoneOfType(ImportedGraph, "IfcBuilding")
    /\ Len(SpatialRecords) = 2
    /\ SpatialRecords[1].type = "storey"
    /\ SpatialRecords[1].elevation = 3000
    /\ SpatialRecords[2].type = "space"
    /\ "elevation" \notin DOMAIN SpatialRecords[2]

\* ---- C26 ----

\* the material entities the last export constructed, in order
NewMaterials == NewOfTypes(last, {"IfcMaterial"})

\* the property sets the last export constructed for the material at
\* position m
PropertySetsOf(m) ==
    SelectSeq(NewOfTypes(last, {"IfcMaterialProperties"}),
              LAMBDA q : last.written[q].Material = m)

\* the name-value pairs the property set at position q holds
PairsOf(q) ==
    {<<last.written[v].Name, last.written[v].NominalValue>> :
        v \in {last.written[q].Properties[k] :
                  k \in 1..Len(last.written[q].Properties)}}

\* the pairs of the property bag of a material of the bundle
BagOf(material_data) ==
    LET properties == Get(material_data, "properties", <<>>)
    IN  {<<properties[k][1], properties[k][2]>> : k \in 1..Len(properties)}

\* material_map as _create_materials of the last export returned it: the
\* loop run again on the graph as it was before the first material
MaterialMapOf(call) ==
    CreateMaterials(
        [fid |-> ifc_file.fid,
         ents |-> SubSeq(call.written, 1,
                         NewOfTypes(call, {"IfcMaterial"})[1] - 1)],
        ListOf(call.data, "materials"), <<>>).map

\* the k-th material of the bundle has its one entity, named after it and
\* recorded in the map under its id
OneMaterialEntity(k) ==
    /\ last.written[NewMaterials[k]].Name
           = Get(last.data.materials[k], "name", "Material")
    /\ MaterialMapOf(last)[last.data.materials[k].id] = NewMaterials[k]

\* C26 as stated: an export constructs one material entity per material of
\* the bundle, recorded in the map under the material's id, and for each of
\* them exactly one property set attached to it, which holds the pairs of
\* the material's property bag and no others.
C26_OnePropertySetPerMaterial ==
    ExportOk(last) =>
        /\ Len(NewMaterials) = Len(ListOf(last.data, "materials"))
        /\ \A k \in 1..Len(NewMaterials) :
               /\ OneMaterialEntity(k)
               /\ Len(PropertySetsOf(NewMaterials[k])) = 1
               /\ PairsOf(PropertySetsOf(NewMaterials[k])[1])
                      = BagOf(last.data.materials[k])

\* C26 amended: an export constructs one material entity per material of the
\* bundle, recorded in the map under the material's id; a material whose
\* property bag is not empty gets exactly one property set attached to it,
\* holding the pairs of the bag and no others, and a material without
\* properties gets no property set.
C26_PropertySetIfProperties ==
    ExportOk(last) =>
        /\ Len(NewMaterials) = Len(ListOf(last.data, "materials"))
        /\ Len(NewOfTypes(last, {"IfcMaterialProperties"}))
               = Cardinality({k \in 1..Len(NewMaterials) :
                                 BagOf(last.data.materials[k]) # {}})
        /\ \A k \in 1..Len(NewMaterials) :
               /\ OneMaterialEntity(k)
               /\ IF BagOf(last.data.materials[k]) = {}
                  THEN PropertySetsOf(NewMaterials[k]) = <<>>
                  ELSE /\ Len(PropertySetsOf(NewMaterials[k])) = 1
                       /\ PairsOf(PropertySetsOf(NewMaterials[k])[1])
                              = BagOf(last.data.materials[k])
                       /\ Len(last.written[PropertySetsOf(NewMaterials[k])[1]]
                                  .Properties)
                              = Len(last.data.materials[k].properties)

\* C26 witness: an export has made a material with its property set of two
\* pairs, after an export that made a material and no property set.
C26_Witness ==
    /\ ExportOk(last)
    /\ Len(NewMaterials) = 1
    /\ last.written[NewMaterials[1]].Name = "Concrete C30"
    /\ Len(PropertySetsOf(NewMaterials[1])) = 1
    /\ Cardinality(PairsOf(PropertySetsOf(NewMaterials[1])[1])) = 2
    /\ ExportOk(prev)
    /\ Len(NewOfTypes(prev, {"IfcMaterial"})) = 1
    /\ NewOfTypes(prev, {"IfcMaterialProperties"}) = <<>>

\* ---- C27 ----

\* name, action type and action source of a load case of a bundle, with what
\* stands in for an absent one
LoadCaseFields(load_case_data) ==
    [name |-> Get(load_case_data, "name", "Load Case"),
     action_type |-> Get(load_case_data, "action_type", "PERMANENT_G"),
     action_source |-> Get(load_case_data, "action_source", "DEAD_LOAD_G")]

\* the load case entities a call constructed, in order
NewLoadCases(call) == NewOfTypes(call, {"IfcStructuralLoadCase"})

\* the load cases the last import returned that come before those of the
\* export it read
LoadCaseOffset ==
    Len(last.result.load_cases) - Len(ListOf(prev.data, "load_cases"))

\* C27: an export constructs one load case entity per load case of the
\* bundle, with the record's name, action type and action source, an absent
\* action type being PERMANENT_G and an absent action source DEAD_LOAD_G; an
\* import of the graph written returns, for each of them and in order, a
\* record with the same name, action type and action source.
C27_LoadCaseRoundTrip ==
    /\ ExportOk(last) =>
           /\ Len(NewLoadCases(last)) = Len(ListOf(last.data, "load_cases"))
           /\ \A k \in 1..Len(NewLoadCases(last)) :
                  LET entity == last.written[NewLoadCases(last)[k]]
                      fields == LoadCaseFields(last.data.load_cases[k])
                  IN  /\ entity.Name = fields.name
                      /\ entity.ActionType = fields.action_type
                      /\ entity.ActionSource = fields.action_source
    /\ RoundTrip =>
           /\ LoadCaseOffset >= 0
           /\ \A k \in 1..Len(ListOf(prev.data, "load_cases")) :
                  LET record == last.result.load_cases[LoadCaseOffset + k]
                      fields == LoadCaseFields(prev.data.load_cases[k])
                  IN  /\ record.name = fields.name
                      /\ record.action_type = fields.action_type
                      /\ record.action_source = fields.action_source

\* C27 witness: a round trip has returned a load case exported with its own
\* action type and source, and one exported without a name and a source.
C27_Witness ==
    /\ RoundTrip
    /\ Len(ListOf(prev.data, "load_cases")) = 2
    /\ "action_source" \notin DOMAIN prev.data.load_cases[2]
    /\ last.result.load_cases[LoadCaseOffset + 1].name = "Live"
    /\ last.result.load_cases[LoadCaseOffset + 1].action_source = "LIVE_LOAD_Q"
    /\ last.result.load_cases[LoadCaseOffset + 2].action_type = "EXTRAORDINARY_A"
    /\ last.result.load_cases[LoadCaseOffset + 2].action_source = "DEAD_LOAD_G"

\* ---- C28 ----

\* the entity classes export makes elements of
ElementClasses == {"IfcBeam", "IfcColumn", "IfcStructuralMember"}

\* the class the claim gives an element of the bundle, and the kind an
\* import reports for an entity of that class
ClassOfKind(element_data) ==
    IF "type" \notin DOMAIN element_data THEN "IfcBeam"
    ELSE IF element_data.type = "beam" THEN "IfcBeam"
    ELSE IF element_data.type = "column" THEN "IfcColumn"
    ELSE "IfcStructuralMember"

KindOfClass(class) ==
    IF class = "IfcBeam" THEN "beam"
    ELSE IF class = "IfcColumn" THEN "column"
    ELSE "structural_member"

\* element_map as _create_structural_elements of the call returned it: the
\* loop run again on the graph as it was before the first element
ElementMapOf(call) ==
    CreateStructuralElements(
        [fid |-> ifc_file.fid,
         ents |-> SubSeq(call.written, 1,
                         NewOfTypes(call, ElementClasses)[1] - 1)],
        ListOf(call.data, "elements"), <<>>, <<>>, <<>>).map

\* C28: an export constructs one entity per element of the bundle, recorded
\* in the element map under the element's id: a beam for kind 'beam' and for
\* an absent kind, a column for kind 'column', a structural member for any
\* other kind; an import of the graph written reports each of them with the
\* kind of its entity, so a slab or a wall comes back as 'structural_member'.
C28_ElementKinds ==
    /\ ExportOk(last) =>
           /\ Len(NewOfTypes(last, ElementClasses))
                  = Len(ListOf(last.data, "elements"))
           /\ NewOfTypes(last, {"IfcSlab", "IfcWall"}) = <<>>
           /\ \A k \in 1..Len(ListOf(last.data, "elements")) :
                  /\ ElementEntityOf(last, k).type
                         = ClassOfKind(last.data.elements[k])
                  /\ ElementMapOf(last)[last.data.elements[k].id]
                         = NewOfTypes(last, ElementClasses)[k]
    /\ RoundTrip =>
           \A k \in 1..Len(ListOf(prev.data, "elements")) :
               \E j \in 1..Len(last.result.elements) :
                   /\ last.result.elements[j].id
                          = ElementEntityOf(prev, k).GlobalId
                   /\ last.result.elements[j].type
                          = KindOfClass(ClassOfKind(prev.data.elements[k]))

\* the last import returned the element of the given id with the given kind
ReturnedAs(id, kind) ==
    \E j \in 1..Len(last.result.elements) :
        /\ last.result.elements[j].id = id
        /\ last.result.elements[j].type = kind

\* C28 witness: a round trip of a bundle with an element of no kind and a
\* slab has returned the first as a beam and the slab as a structural member.
C28_Witness ==
    /\ RoundTrip
    /\ Len(ListOf(prev.data, "elements")) = 2
    /\ "type" \notin DOMAIN prev.data.elements[1]
    /\ prev.data.elements[2].type = "slab"
    /\ ReturnedAs(ElementEntityOf(prev, 1).GlobalId, "beam")
    /\ ReturnedAs(ElementEntityOf(prev, 2).GlobalId, "structural_member")

\* ---- C30 ----

\* the calls before the k-th that were made with its key, were allowed and
\* are still inside the window at the time of the k-th
AllowedInside(k) ==
    {j \in 1..(k - 1) :
        /\ history[j].key = history[k].key
        /\ history[j].allowed
        /\ history[k].time - history[j].time < RateWindows[history[k].key]}

\* the allowed calls of a key made at a time from a to b
AllowedBetween(key, a, b) ==
    {j \in 1..Len(history) :
        /\ history[j].key = key
        /\ history[j].allowed
        /\ history[j].time \in a..b}

\* the last call made with the key, 0 when none
LastAsk(key) ==
    IF \E k \in 1..Len(history) : history[k].key = key
    THEN CHOOSE k \in 1..Len(history) :
             /\ history[k].key = key
             /\ \A j \in (k + 1)..Len(history) : history[j].key # key
    ELSE 0

\* the times of the calls of the set, in the order of the calls
RECURSIVE TimesOf(_, _)
TimesOf(calls_made, k) ==
    IF k > Len(history) THEN <<>>
    ELSE (IF k \in calls_made THEN <<history[k].time>> ELSE <<>>)
         \o TimesOf(calls_made, k + 1)

\* C30: with the limit and the window of each key fixed and a clock that
\* never goes back, no more than limit calls of a key are allowed at times
\* less than one window apart; a call is denied exactly when limit earlier
\* allowed calls of its key are still inside the window, whatever calls were
\* made with other keys; and the list kept for a key holds the allowed calls
\* of that key that were inside the window at its last call, and no denied
\* one.
C30_RateLimit ==
    /\ \A key \in RateKeys, a \in 0..MaxTime :
           Cardinality(AllowedBetween(key, a, a + RateWindows[key] - 1))
               <= RateLimits[key]
    /\ \A k \in 1..Len(history) :
           /\ Cardinality(AllowedInside(k)) <= RateLimits[history[k].key]
           /\ ~history[k].allowed
                  <=> Cardinality(AllowedInside(k)) = RateLimits[history[k].key]
    /\ \A key \in RateKeys :
           IF LastAsk(key) = 0 THEN key \notin DOMAIN requests
           ELSE /\ key \in DOMAIN requests
                /\ requests[key] =
                       TimesOf(AllowedInside(LastAsk(key))
                                   \cup (IF history[LastAsk(key)].allowed
                                         THEN {LastAsk(key)} ELSE {}), 1)

\* C30 witness: a key has been denied at its limit while the other key was
\* allowed at the same time, and was allowed again once a call had left the
\* window.
C30_Witness ==
    \E i, j, k \in 1..Len(history) :
        /\ i < k
        /\ history[i].key = "user-1" /\ ~history[i].allowed
        /\ history[j].key = "anonymous" /\ history[j].allowed
        /\ history[j].time = history[i].time
        /\ history[k].key = "user-1" /\ history[k].allowed
        /\ Len(requests["user-1"]) = 2

====
